---- MODULE Spec2Model ----
(***************************************************************************)
(* A model of the GenXData generation engine: the config processors        *)
(* (normal and streaming), the strategy factory and the strategies, the    *)
(* writers and the orchestrator.                                           *)
(*                                                                         *)
(* Every specification below starts from constructed objects: Init is the  *)
(* state after __init__ has returned.  The module keeps one group of       *)
(* variables per component; a specification drives one group and leaves    *)
(* the others at their idle value.  StrategyFactory is taken to be         *)
(* constructible the way its call sites construct it.                      *)
(***************************************************************************)
EXTENDS Integers, Sequences, FiniteSets, TLC

VARIABLES
    \* ---- processors (core/processors) ----
    cfg,             \* the configuration both processors are given
    npc,             \* NormalConfigProcessor.process: "start" | "done"
    nresult,         \* status of the dict it returned, "" before it returns
    nwritten,        \* tables handed to writer.write, in call order
    nfinalized,      \* number of writer.finalize calls
    nerrors,         \* error_handler.errors of the normal run
    nerror,          \* the "error" text of the dict it returned, <<>> if none
    nwrite_status,   \* status of the dict writer.write returned to it, "" before
    spc,             \* StreamingConfigProcessor.process: "start" | "loop" | "done"
    total_generated, \* its loop counter
    batch_count,     \* its loop counter
    sresult,
    swritten,
    sfinalized,
    serrors,
    serror,
    sbatch_writer,   \* the BatchWriter of the streaming run
    slog,            \* its chunks as generated and as handed to writer.write
    \* ---- strategies (core/strategies): two instances A and B in one process ----
    stA, stB,        \* the params each instance was constructed with
    privA, privB,    \* the state each instance keeps in its own attributes
    grng,            \* the process-wide generators: random and np.random
    opsA,            \* the calls made on A since its construction, in order
    outAll,          \* the values A returned since its construction
    sinceOps,        \* the generate_chunk counts since A's last reset_state
    outSince,        \* the values A returned since its last reset_state
    hasReset,        \* reset_state has been called on A
    interfered,      \* B was constructed, reset or used since A's last reset
    bOps,            \* the number of calls made on B
    \* ---- writers (core/writers) ----
    wkind,           \* which writer is under test
    file_writer,     \* FileWriter: total_rows_written, files_written
    stream_writer,   \* StreamWriter: total_rows_written, total_batches_sent, connected
    batch_writer,    \* BatchWriter: batches_written, total_rows_written
    sink,            \* row counts that reached the file / the queue, in order
    wout,            \* what was emitted: the files written and the messages sent
    wfinalized,      \* number of finalize() calls
    wcalls,          \* number of write() calls
    wlast,           \* the last call: its input, the state before it, its result
    \* ---- orchestrator (core/orchestrator.py) ----
    orch,            \* the DataOrchestrator: stream and batch as given to __init__
    opc,             \* position of run()
    oexc,            \* the exception in flight in run(), "" when none
    oerrors,         \* error_handler.errors
    odf,             \* the local df of run() is bound
    oloaded,         \* side configurations load_config has returned
    ostarted,        \* processors that were started
    oreports,        \* number of error reports generated
    oret,            \* what run() returns, or the exception it lets out
    oruns,           \* number of run() calls that have ended
    \* ---- strategy factory (core/strategy_factory.py) and one instance ----
    freq,            \* the create_strategy call: strategy name, params, unique
    fpc,             \* "new" | "created" | "failed"
    finst,           \* class of the instance create_strategy returned, "" if none
    fexc,            \* the exception create_strategy raised, <<>> if none
    fhandled,        \* what the caller's except clauses did with it
    fpriv,           \* the instance's own state
    frng,            \* the process-wide generators
    flast,           \* the last generate_chunk call and what it returned
    fsince,          \* the values returned since the last reset_state
    fcalls,          \* number of calls on the instance
    \* ---- StreamingBatchProcessor (core/streaming/streaming_batch_processor.py) ----
    sbp,             \* the processor: its sizes, buffer and counters
    sbp_pc,          \* process(): "loop" | "done" | "raised"
    sbp_written,     \* the write_batch calls: batch_index and rows, in order
    sbp_finalized,   \* number of batch_writer.finalize calls
    \* ---- process_streaming_config (core/streaming/stream_processor.py) ----
    config_file,     \* the configuration: num_of_rows and one Series column
    stream_config,   \* the streaming configuration: batch_size
    STREAM_BATCH_SIZE, \* the value of SETTINGS.STREAM_BATCH_SIZE
    psc_pc,          \* "start" | "loop" | "done" | "raised"
    batches,         \* what get_batches returned
    batch_index,     \* the batch the loop is at
    psc_sent,        \* per batch sent: its index, size, Series start and values
    \* ---- AMQPProducer (queue/amqp_producer.py) and its caller ----
    reachable,       \* whether the broker of config.url can be reached
    aq_main,         \* caller: "start" | "waiting" | "connected" | "raised" | "done"
    aq_container,    \* container thread: "idle" | "started" | "running" | "stopped"
    _connected,      \* AMQPProducer._connected
    connection_ready,\* AMQPProducer.connection_ready (threading.Event)
    sender,          \* AMQPProducer.sender: "none" | "created"
    aq_link,         \* the broker connection: "none" | "pending" | "open" | "failed"
    aq_elapsed,      \* seconds spent in connection_ready.wait
    aq_returned,     \* aq_link at the moment connect() returned normally
    aq_generated,    \* batches generated by the caller
    aq_sent,         \* batches handed to sender.send
    aq_error         \* the exception the caller ended with

procVars == <<cfg, npc, nresult, nwritten, nfinalized, nerrors, nerror,
              nwrite_status,
              spc, total_generated, batch_count, sresult, swritten,
              sfinalized, serrors, serror, sbatch_writer, slog>>

stratVars == <<stA, stB, privA, privB, grng, opsA, outAll, sinceOps, outSince,
               hasReset, interfered, bOps>>

writerVars == <<wkind, file_writer, stream_writer, batch_writer, sink, wout,
                wfinalized, wcalls, wlast>>

orchVars == <<orch, opc, oexc, oerrors, odf, oloaded, ostarted, oreports, oret,
              oruns>>

factVars == <<freq, fpc, finst, fexc, fhandled, fpriv, frng, flast, fsince,
              fcalls>>

batchVars == <<sbp, sbp_pc, sbp_written, sbp_finalized>>

streamVars == <<config_file, stream_config, STREAM_BATCH_SIZE, psc_pc, batches,
                batch_index, psc_sent>>

amqpVars == <<reachable, aq_main, aq_container, _connected, connection_ready,
              sender, aq_link, aq_elapsed, aq_returned, aq_generated, aq_sent,
              aq_error>>

streamingVars == <<batchVars, streamVars, amqpVars>>

vars == <<procVars, stratVars, writerVars, orchVars, factVars, streamingVars>>

\* The idle value of each group: the component is not part of the run.
ProcIdle ==
    /\ cfg = <<>> /\ npc = "idle" /\ nresult = "" /\ nwritten = <<>>
    /\ nfinalized = 0 /\ nerrors = <<>> /\ spc = "idle" /\ total_generated = 0
    /\ batch_count = 0 /\ sresult = "" /\ swritten = <<>> /\ sfinalized = 0
    /\ serrors = <<>> /\ nerror = <<>> /\ serror = <<>>
    /\ sbatch_writer = <<>> /\ slog = <<>> /\ nwrite_status = ""

StratIdle ==
    /\ stA = <<>> /\ stB = <<>> /\ privA = <<>> /\ privB = <<>> /\ grng = <<>>
    /\ opsA = <<>> /\ outAll = <<>> /\ sinceOps = <<>> /\ outSince = <<>>
    /\ hasReset = FALSE /\ interfered = FALSE /\ bOps = 0

WriterIdle ==
    /\ wkind = "idle" /\ file_writer = <<>> /\ stream_writer = <<>>
    /\ batch_writer = <<>> /\ sink = <<>> /\ wfinalized = 0 /\ wcalls = 0
    /\ wlast = <<>> /\ wout = <<>>

OrchIdle ==
    /\ orch = <<>> /\ opc = "idle" /\ oexc = "" /\ oerrors = <<>> /\ odf = FALSE
    /\ oloaded = {} /\ ostarted = {} /\ oreports = 0 /\ oret = "" /\ oruns = 0

FactIdle ==
    /\ freq = <<>> /\ fpc = "idle" /\ finst = "" /\ fexc = <<>>
    /\ fhandled = <<>> /\ fpriv = <<>> /\ frng = <<>> /\ flast = <<>>
    /\ fsince = {} /\ fcalls = 0

BatchIdle ==
    /\ sbp = <<>> /\ sbp_pc = "idle" /\ sbp_written = <<>> /\ sbp_finalized = 0

StreamIdle ==
    /\ config_file = <<>> /\ stream_config = <<>> /\ STREAM_BATCH_SIZE = 0
    /\ psc_pc = "idle" /\ batches = <<>> /\ batch_index = 0 /\ psc_sent = <<>>

AmqpIdle ==
    /\ reachable = FALSE /\ aq_main = "idle" /\ aq_container = "idle"
    /\ _connected = FALSE /\ connection_ready = FALSE /\ sender = "none"
    /\ aq_link = "none" /\ aq_elapsed = 0 /\ aq_returned = "none"
    /\ aq_generated = 0 /\ aq_sent = 0 /\ aq_error = ""

StreamingIdle == BatchIdle /\ StreamIdle /\ AmqpIdle

(***************************************************************************)
(* Bounds of the model.                                                    *)
(***************************************************************************)
MaxRows == 3

\* SETTINGS.MINIMUM_ROWS_ALLOWED: __init__ raises a smaller num_of_rows to it.
MINIMUM_ROWS_ALLOWED == 1

(***************************************************************************)
(* Tables (pandas DataFrames).  A table has n rows with the labels         *)
(* 0..n-1 (position i carries label i-1), an ordered list of columns, one  *)
(* cell per column and row, and the ad-hoc attribute                       *)
(* _intermediate_columns, which exists only once it has been set.          *)
(***************************************************************************)
NaN == -1

ColumnNames == <<"a", "b">>

RECURSIVE SeqToSet(_)
SeqToSet(s) == IF s = <<>> THEN {} ELSE {Head(s)} \cup SeqToSet(Tail(s))

create_base_dataframe(size) ==
    [n       |-> IF size < 0 THEN 0 ELSE size,
     cols    |-> ColumnNames,
     cell    |-> [c \in SeqToSet(ColumnNames) |-> [i \in 1..size |-> NaN]],
     hasAttr |-> FALSE,
     inter   |-> {}]

mark_as_intermediate(df, column_name) ==
    [df EXCEPT !.hasAttr = TRUE, !.inter = @ \cup {column_name}]

RECURSIVE DropColumns(_, _)
DropColumns(cols, drop) ==
    IF cols = <<>> THEN <<>>
    ELSE IF Head(cols) \in drop THEN DropColumns(Tail(cols), drop)
         ELSE <<Head(cols)>> \o DropColumns(Tail(cols), drop)

\* df.drop(columns=...) returns a new DataFrame: the attribute is not carried.
filter_intermediate_columns(df) ==
    IF ~df.hasAttr THEN df
    ELSE IF df.inter = {} THEN df
    ELSE [n       |-> df.n,
          cols    |-> DropColumns(df.cols, df.inter),
          cell    |-> [c \in SeqToSet(DropColumns(df.cols, df.inter)) |-> df.cell[c]],
          hasAttr |-> FALSE,
          inter   |-> {}]

\* df.sample(frac=1).reset_index(drop=True) under the permutation perm of the
\* row positions: a new DataFrame, relabelled 0..n-1; attributes set on the
\* old object are not carried over.
SampleResetIndex(df, perm) ==
    [n       |-> df.n,
     cols    |-> df.cols,
     cell    |-> [c \in DOMAIN df.cell |-> [i \in 1..df.n |-> df.cell[c][perm[i]]]],
     hasAttr |-> FALSE,
     inter   |-> {}]

Perms(n) == {p \in [1..n -> 1..n] : \A i, j \in 1..n : p[i] = p[j] => i = j}

\* The rows of a table, as written: one tuple per row over the table's columns.
Rows(df) == [i \in 1..df.n |-> [k \in 1..Len(df.cols) |-> df.cell[df.cols[k]][i]]]

RECURSIVE ConcatRows(_)
ConcatRows(tables) ==
    IF tables = <<>> THEN <<>> ELSE Rows(Head(tables)) \o ConcatRows(Tail(tables))

(***************************************************************************)
(* Masks.  BaseConfig declares mask: str = "" and to_dict() returns every  *)
(* field, so the params a strategy is built with always carry a string     *)
(* mask: the configured expression, or "" when the column has none.        *)
(* DataFrame.eval raises on "" (ValueError, expr cannot be an empty        *)
(* string) and on an expression it cannot parse.                           *)
(***************************************************************************)
NoMask == ""
MaskAll == "index >= 0"
MaskEven == "index % 2 == 0"
MaskZero == "index < 0"
MaskOnA == "a >= 11"
MaskBad == "index >"

Masks == {NoMask, MaskAll, MaskEven, MaskZero, MaskOnA, MaskBad}

EvalRaises(mask) == mask \in {NoMask, MaskBad}

\* strategy.df.eval(mask): the boolean vector over the rows of df.
DfEval(df, mask) ==
    [i \in 1..df.n |->
        CASE mask = MaskAll  -> TRUE
          [] mask = MaskEven -> (i - 1) % 2 = 0
          [] mask = MaskOnA  -> df.cell["a"][i] # NaN /\ df.cell["a"][i] >= 11
          [] OTHER           -> FALSE]

MaskSum(vec, n) == Cardinality({i \in 1..n : vec[i]})


(***************************************************************************)
(* Series strategy (core/strategies/series_strategy.py), integer case.     *)
(***************************************************************************)
\* _initialize_state: _current_value and _step from the params.
Series_initialize_state(params) ==
    [current_value |-> params.start, step |-> params.step]

\* np.arange(start, stop, step, dtype=int): the length is
\* ceil((stop - start) / step), a division that raises for step = 0.
np_arange(start, stop, step) ==
    IF step = 0
    THEN [exc |-> "ZeroDivisionError", values |-> <<>>]
    ELSE LET span == (stop - start) * (IF step < 0 THEN -1 ELSE 1)
             size == IF step < 0 THEN -step ELSE step
             len  == IF span <= 0 THEN 0 ELSE (span + size - 1) \div size
         IN  [exc |-> "", values |-> [i \in 1..len |-> start + (i - 1) * step]]

\* generate_chunk(count): np.arange(start, start + count*step, step), and the
\* state advanced to the end of the chunk; an exception of np.arange leaves
\* the state as it was.
Series_generate_chunk(state, count) ==
    LET end == state.current_value + count * state.step
        r   == np_arange(state.current_value, end, state.step)
    IN  [values |-> r.values,
         state  |-> IF r.exc = "" THEN [state EXCEPT !.current_value = end]
                    ELSE state,
         exc    |-> r.exc]

\* generate_data(count): reset_state(), then generate_chunk(count).
Series_generate_data(params, count) ==
    Series_generate_chunk(Series_initialize_state(params), count).values

(***************************************************************************)
(* Concat strategy (core/strategies/concat_strategy.py).                   *)
(***************************************************************************)
\* Series.astype(str) of one cell.
astype_str(v) == IF v = NaN THEN "nan" ELSE ToString(v)

\* generate_chunk(count): the first count rows of lhs_col and rhs_col as
\* strings, joined with prefix, separator and suffix (all empty here).
Concat_generate_chunk(df, params, count) ==
    [i \in 1..(IF count < df.n THEN count ELSE df.n) |->
        astype_str(df.cell[params.lhs_col][i])
            \o astype_str(df.cell[params.rhs_col][i])]

Concat_generate_data(df, params, count) == Concat_generate_chunk(df, params, count)

(***************************************************************************)
(* Strategy factory (core/strategy_factory.py).                            *)
(***************************************************************************)
\* create_strategy: config_class.from_dict(params), validate(), and the
\* strategy built on config.to_dict(), which always carries the mask field.
create_strategy(strategy_name, df, col_name, rows, intermediate, params) ==
    [name            |-> strategy_name,
     df              |-> df,
     col_name        |-> col_name,
     rows            |-> rows,
     is_intermediate |-> intermediate,
     params          |-> [params EXCEPT
                             !.hasMask = TRUE,
                             !.mask = IF params.hasMask THEN params.mask ELSE NoMask]]

generate_data(strategy, count) ==
    IF strategy.name = "CONCAT_STRATEGY"
    THEN Concat_generate_data(strategy.df, strategy.params, count)
    ELSE Series_generate_data(strategy.params, count)

\* strategy.df[col] = values and strategy.df.loc[mask, col] = values: the
\* assigned Series is aligned on the row labels, so the row labelled l takes
\* values[l] when values has that label and NaN when it has not.
SetItemAligned(df, col, vec, values) ==
    [df EXCEPT !.cell[col] =
        [i \in 1..df.n |->
            IF vec[i]
            THEN IF i <= Len(values) THEN values[i] ELSE NaN
            ELSE @[i]]]

execute_strategy(strategy) ==
    LET df == strategy.df
        marked(d) == IF strategy.is_intermediate
                     THEN mark_as_intermediate(d, strategy.col_name)
                     ELSE d
    IN  IF ~strategy.params.hasMask
        THEN \* mask is True: generate for all rows
             LET values == generate_data(strategy, strategy.rows)
             IN  [ok  |-> TRUE,
                  df  |-> marked(SetItemAligned(df, strategy.col_name,
                                                [i \in 1..df.n |-> TRUE], values)),
                  exc |-> ""]
        ELSE IF EvalRaises(strategy.params.mask)
        THEN [ok  |-> FALSE,
              df  |-> df,
              exc |-> IF strategy.params.mask = NoMask
                      THEN "ValueError" ELSE "SyntaxError"]
        ELSE LET vec    == DfEval(df, strategy.params.mask)
                 count  == MaskSum(vec, df.n)
                 values == generate_data(strategy, count)
             IN  [ok  |-> TRUE,
                  df  |-> marked(SetItemAligned(df, strategy.col_name, vec, values)),
                  exc |-> ""]

(***************************************************************************)
(* BaseConfigProcessor (core/processors/base_config_processor.py).         *)
(***************************************************************************)
_execute_column_strategy(df, col_name, cur_config, rows) ==
    execute_strategy(
        create_strategy(cur_config.strategy.name, df, col_name, rows,
                        cur_config.intermediate,
                        cur_config.strategy.params
                            @@ [hasMask |-> cur_config.hasMask,
                                mask    |-> cur_config.mask]))

\* _process_single_config: every name of the config in turn; a disabled config
\* is skipped; an exception is added to the error handler and raised again.
RECURSIVE _process_single_config(_, _, _, _)
_process_single_config(df, cur_config, rows, k) ==
    IF k > Len(cur_config.names) THEN [ok |-> TRUE, df |-> df, exc |-> ""]
    ELSE IF cur_config.disabled
         THEN _process_single_config(df, cur_config, rows, k + 1)
         ELSE LET r == _execute_column_strategy(df, cur_config.names[k], cur_config, rows)
              IN  IF r.ok THEN _process_single_config(r.df, cur_config, rows, k + 1)
                  ELSE r

RECURSIVE process_column_strategies(_, _, _, _)
process_column_strategies(df, configs, rows, k) ==
    IF k > Len(configs) THEN [ok |-> TRUE, df |-> df, exc |-> ""]
    ELSE LET r == _process_single_config(df, configs[k], rows, 1)
         IN  IF r.ok THEN process_column_strategies(r.df, configs, rows, k + 1)
             ELSE r

\* apply_shuffle: the shuffled tables df may become.
apply_shuffle(df, shuffle_data) ==
    IF shuffle_data THEN {SampleResetIndex(df, p) : p \in Perms(df.n)} ELSE {df}

\* The tables one pass (base DataFrame, strategies, shuffle, filter) may hand
\* to the writer, or the exception that ends it.
Generate(size) ==
    LET r == process_column_strategies(create_base_dataframe(size), cfg.configs,
                                       cfg.rows, 1)
    IN  IF r.ok
        THEN {[ok |-> TRUE, df |-> filter_intermediate_columns(d), exc |-> ""] :
                 d \in apply_shuffle(r.df, cfg.shuffle)}
        ELSE {r}

BuiltinError(exc) == [type |-> exc, severity |-> "ERROR"]

(***************************************************************************)
(* Validation of the configuration.  An exception is a record of its class *)
(* and of the column names its message mentions.                           *)
(***************************************************************************)
\* The columns a Concat config reads.
ReferencedColumns(c) ==
    IF c.strategy.name = "CONCAT_STRATEGY"
    THEN {c.strategy.params.lhs_col, c.strategy.params.rhs_col}
    ELSE {}

\* The columns configured after position k.
ConfiguredAfter(configs, k) ==
    UNION {SeqToSet(configs[j].names) : j \in {i \in DOMAIN configs : i > k}}

\* validate_generator_config (utils.generator_utils): a Concat that refers to
\* a column configured later is rejected with an InvalidConfigParamException
\* that names the referenced column.
validate_generator_config(config) ==
    LET fwd == UNION {ReferencedColumns(config.configs[k])
                          \cap ConfiguredAfter(config.configs, k) :
                      k \in DOMAIN config.configs}
    IN  IF fwd = {}
        THEN [ok |-> TRUE, exc |-> <<>>]
        ELSE [ok |-> FALSE,
              exc |-> [type |-> "InvalidConfigParamException", mentions |-> fwd]]

\* str(e).  InvalidConfigParamException.__str__ reads self.message, which
\* __init__ never sets: the call raises AttributeError.
Exception_str(e) ==
    IF e.type = "InvalidConfigParamException"
    THEN [ok |-> FALSE, exc |-> [type |-> "AttributeError", mentions |-> {}]]
    ELSE [ok |-> TRUE, exc |-> e]

\* BaseConfigProcessor.validate_config: on InvalidConfigParamException the
\* message is formatted for the log, the error is added to the handler and
\* raised again.
validate_config(config, errors) ==
    LET r == validate_generator_config(config)
    IN  IF r.ok THEN [ok |-> TRUE, exc |-> <<>>, errors |-> errors]
        ELSE LET text == Exception_str(r.exc)
             IN  IF ~text.ok
                 THEN [ok |-> FALSE, exc |-> text.exc, errors |-> errors]
                 ELSE [ok |-> FALSE, exc |-> r.exc,
                       errors |-> Append(errors, BuiltinError(r.exc.type))]

\* except Exception as e: the "error" entry of the returned dict is str(e).
ErrorText(e) ==
    LET text == Exception_str(e)
    IN  [type |-> text.exc.type, mentions |-> text.exc.mentions]

(***************************************************************************)
(* BatchWriter.write (core/writers/batch_writer.py), the writer the        *)
(* streaming processor wraps its writer in.                                *)
(***************************************************************************)
\* write without the counter update of write_batch.
BatchWriter_write_stale_counter(bw, actual, n) ==
    [w      |-> bw,
     landed |-> actual.landed,
     status |-> "success",
     batch_index |-> bw.batches_written]

\* BatchWriter.write: write_batch hands the table to the wrapped writer,
\* drops its result and advances both counters; write returns success.
BatchWriter_write(bw, actual, n) ==
    [w      |-> [batches_written    |-> bw.batches_written + 1,
                 total_rows_written |-> bw.total_rows_written + n],
     landed |-> actual.landed,
     status |-> "success",
     batch_index |-> bw.batches_written]

\* The status of the dict FileWriter.write or StreamWriter.write returns for
\* a table of n rows: skipped for an empty table; otherwise success, or error
\* when the output failed (write catches every exception and returns).
Writer_write_results(n) == IF n = 0 THEN {"skipped"} ELSE {"success", "error"}

(***************************************************************************)
(* NormalConfigProcessor.process                                           *)
(***************************************************************************)
NormalProcess ==
    /\ npc = "start"
    /\ LET v == validate_config(cfg, nerrors)
       IN  IF ~v.ok
           THEN /\ nerrors' = v.errors
                /\ nresult' = "error"
                /\ nerror' = ErrorText(v.exc)
                /\ UNCHANGED <<nwritten, nfinalized, nwrite_status>>
           ELSE \E g \in Generate(cfg.rows) :
                  IF g.ok
                  THEN /\ nwritten' = Append(nwritten, g.df)
                       /\ \E write_result \in Writer_write_results(g.df.n) :
                             nwrite_status' = write_result
                       /\ nfinalized' = nfinalized + 1
                       /\ nresult' = "success"
                       /\ UNCHANGED <<nerrors, nerror>>
                  ELSE /\ nerrors' = Append(nerrors, BuiltinError(g.exc))
                       /\ nresult' = "error"
                       /\ nerror' = ErrorText([type |-> g.exc, mentions |-> {}])
                       /\ UNCHANGED <<nwritten, nfinalized, nwrite_status>>
    /\ npc' = "done"
    /\ UNCHANGED <<cfg, spc, total_generated, batch_count, sresult, swritten,
                   sfinalized, serrors, serror, sbatch_writer, slog>>
    /\ UNCHANGED <<stratVars, writerVars, orchVars, factVars, streamingVars>>

(***************************************************************************)
(* StreamingConfigProcessor.process: the validation before the loop, one   *)
(* iteration of the loop, and the code after the loop.                     *)
(***************************************************************************)
Min(a, b) == IF a < b THEN a ELSE b

StreamingChunkSize == Min(cfg.chunk_size, cfg.batch_size)

StreamValidate ==
    /\ spc = "start"
    /\ LET v == validate_config(cfg, serrors)
       IN  IF v.ok
           THEN /\ spc' = "loop"
                /\ UNCHANGED <<sresult, serrors, serror>>
           ELSE /\ serrors' = v.errors
                /\ sresult' = "error"
                /\ serror' = ErrorText(v.exc)
                /\ spc' = "done"
    /\ UNCHANGED <<cfg, npc, nresult, nwritten, nfinalized, nerrors, nerror,
                   nwrite_status,
                   total_generated, batch_count, swritten, sfinalized,
                   sbatch_writer, slog>>
    /\ UNCHANGED <<stratVars, writerVars, orchVars, factVars, streamingVars>>

\* The iterations of the loop the model follows; a run whose every chunk has
\* at least one row takes at most cfg.rows of them.
MaxBatches == 4

StreamChunk ==
    /\ spc = "loop"
    /\ total_generated < cfg.rows
    /\ batch_count < MaxBatches
    /\ LET chunk_size == Min(StreamingChunkSize, cfg.rows - total_generated)
       IN  \E g \in Generate(chunk_size) :
              IF g.ok
              THEN LET batch_info == [batch_index |-> sbatch_writer.batches_written,
                                      batch_size  |-> g.df.n]
                       result == BatchWriter_write(sbatch_writer,
                                                   [landed |-> <<g.df.n>>], g.df.n)
                   IN  /\ swritten' = Append(swritten, g.df)
                       /\ sbatch_writer' = result.w
                       /\ slog' = slog \o
                             <<[event |-> "generate", chunk |-> batch_count + 1,
                                df |-> g.df, status |-> "",
                                batch_index |-> -1, returned |-> -1],
                               [event |-> "write", chunk |-> batch_count + 1,
                                df |-> g.df, status |-> result.status,
                                batch_index |-> batch_info.batch_index,
                                returned |-> result.batch_index]>>
                       /\ total_generated' = total_generated + chunk_size
                       /\ batch_count' = batch_count + 1
                       /\ UNCHANGED <<spc, sresult, serrors, serror>>
              ELSE /\ serrors' = Append(serrors, BuiltinError(g.exc))
                   /\ sresult' = "error"
                   /\ serror' = ErrorText([type |-> g.exc, mentions |-> {}])
                   /\ spc' = "done"
                   /\ UNCHANGED <<swritten, total_generated, batch_count,
                                  sbatch_writer, slog>>
    /\ UNCHANGED <<cfg, npc, nresult, nwritten, nfinalized, nerrors, nerror,
                   nwrite_status,
                   sfinalized>>
    /\ UNCHANGED <<stratVars, writerVars, orchVars, factVars, streamingVars>>

StreamFinish ==
    /\ spc = "loop"
    /\ ~(total_generated < cfg.rows)
    /\ sfinalized' = sfinalized + 1
    /\ sresult' = "success"
    /\ spc' = "done"
    /\ UNCHANGED <<cfg, npc, nresult, nwritten, nfinalized, nerrors, nerror,
                   nwrite_status,
                   total_generated, batch_count, swritten, serrors, serror,
                   sbatch_writer, slog>>
    /\ UNCHANGED <<stratVars, writerVars, orchVars, factVars, streamingVars>>


(***************************************************************************)
(* The configurations the processors are run on.                           *)
(***************************************************************************)
StrategyConfigs(names, start) ==
    {[names        |-> names,
      strategy     |-> [name   |-> "SERIES_STRATEGY",
                        params |-> [start |-> start, step |-> st]],
      hasMask      |-> m # NoMask,
      mask         |-> m,
      intermediate |-> im,
      disabled     |-> FALSE] :
        st \in {1, 2}, m \in Masks, im \in BOOLEAN}

Disabled(c) == [c EXCEPT !.disabled = TRUE]

\* A Concat config: lhs_col and rhs_col among the columns of column_name.
ConcatConfigs(names) ==
    {[names        |-> names,
      strategy     |-> [name   |-> "CONCAT_STRATEGY",
                        params |-> [lhs_col |-> l, rhs_col |-> r]],
      hasMask      |-> TRUE,
      mask         |-> m,
      intermediate |-> FALSE,
      disabled     |-> FALSE] :
        l \in {"a"}, r \in SeqToSet(ColumnNames), m \in {MaskAll, MaskEven}}

SeriesAllRows(names) ==
    {c \in StrategyConfigs(names, 10) : c.mask = MaskAll /\ ~c.intermediate}

ConfigLists ==
    {<<ca, cb>> : ca \in StrategyConfigs(<<"a">>, 10),
                  cb \in {c \in StrategyConfigs(<<"b">>, 20) : c.strategy.params.step = 2}}
    \cup {<<cb, ca>> : ca \in {c \in StrategyConfigs(<<"a">>, 10) :
                                  c.mask = MaskAll /\ c.strategy.params.step = 1},
                       cb \in {c \in StrategyConfigs(<<"b">>, 20) :
                                  c.strategy.params.step = 2}}
    \cup {<<cab>> : cab \in {c \in StrategyConfigs(<<"a", "b">>, 10) :
                                  c.strategy.params.step = 1}}
    \cup {<<ca, Disabled(cb)>> :
              ca \in {c \in StrategyConfigs(<<"a">>, 10) : c.mask = MaskAll},
              cb \in {c \in StrategyConfigs(<<"b">>, 20) : c.mask = MaskAll}}
    \cup {<<ca, cc>> : ca \in SeriesAllRows(<<"a">>), cc \in ConcatConfigs(<<"b">>)}
    \cup {<<cc, ca>> : ca \in SeriesAllRows(<<"a">>), cc \in ConcatConfigs(<<"b">>)}

InitProc ==
    /\ cfg \in [rows       : MINIMUM_ROWS_ALLOWED..MaxRows,
                chunk_size : -1..MaxRows,
                batch_size : {0, MaxRows - 1, MaxRows},
                shuffle    : BOOLEAN,
                configs    : ConfigLists]
    /\ npc = "start"
    /\ nresult = ""
    /\ nwritten = <<>>
    /\ nfinalized = 0
    /\ nerrors = <<>>
    /\ nerror = <<>>
    /\ nwrite_status = ""
    /\ spc = "start"
    /\ total_generated = 0
    /\ batch_count = 0
    /\ sresult = ""
    /\ swritten = <<>>
    /\ sfinalized = 0
    /\ serrors = <<>>
    /\ serror = <<>>
    /\ sbatch_writer = [batches_written |-> 0, total_rows_written |-> 0]
    /\ slog = <<>>
    /\ StratIdle /\ WriterIdle /\ OrchIdle /\ FactIdle /\ StreamingIdle

NextProc == NormalProcess \/ StreamValidate \/ StreamChunk \/ StreamFinish

SpecProc == InitProc /\ [][NextProc]_vars

\* Both runs have returned.
BothDone == npc = "done" /\ spc = "done"

(***************************************************************************)
(* Random number generators.  random (the Python module) and np.random     *)
(* (the legacy global RandomState) are one generator each per process;     *)
(* np.random.RandomState(seed) is a generator of its own.  A generator is  *)
(* its state, here a residue mod 8 stepped by a full-period congruential   *)
(* map; seeding sets the state from the seed, and one draw d in 0..7 is    *)
(* read as the uniform number d/8 of [0, 1).                               *)
(***************************************************************************)
RngStates == 0..7

RngSeed(seed) == seed % 8

RngNext(x) == (5 * x + 3) % 8

RECURSIVE RngAdvance(_, _)
RngAdvance(x, k) == IF k = 0 THEN x ELSE RngNext(RngAdvance(x, k - 1))

\* random.seed(seed); np.random.seed(seed)
SeedGlobal(g, seed) == [py |-> RngSeed(seed), np |-> RngSeed(seed)]

(***************************************************************************)
(* The strategies as objects: _initialize_state, generate_chunk and        *)
(* reset_state of each class.  Each operator takes the instance's params   *)
(* p, its own state priv and the process-wide generators g, and returns    *)
(* what the call leaves behind.  The instances are built with unique =     *)
(* False.                                                                  *)
(***************************************************************************)
\* NumberRangeStrategy: a generator of its own, seeded from the params.
NumberRange_initialize_state(p) == [random_state |-> RngSeed(p.seed)]

\* uniform(lower, upper, count), then astype(int).
NumberRange_generate_chunk(p, priv, count) ==
    [values |-> [i \in 1..count |->
                    p.lower + ((p.upper - p.lower)
                               * RngAdvance(priv.random_state, i)) \div 8],
     priv   |-> [priv EXCEPT !.random_state = RngAdvance(@, count)]]

\* DistributedChoiceStrategy.  choices is the list of weights, in the order
\* of the dict; a value is the position of its choice.  The weights used are
\* multiples of 25, for which weight / total_weight * count is exact.
RECURSIVE DistributedChoice_proportional(_, _, _)
DistributedChoice_proportional(weights, count, j) ==
    IF j > Len(weights) THEN <<>>
    ELSE [i \in 1..((weights[j] * count) \div 100) |-> j]
         \o DistributedChoice_proportional(weights, count, j + 1)

RECURSIVE CumWeight(_, _)
CumWeight(weights, j) == IF j = 0 THEN 0 ELSE weights[j] + CumWeight(weights, j - 1)

\* np.random.choice(choices, p=...): the first choice whose cumulative
\* probability exceeds the uniform draw d/8.
NpRandomChoice(weights, d) ==
    CHOOSE j \in 1..Len(weights) :
        /\ CumWeight(weights, j) * 8 > d * 100
        /\ \A k \in 1..(j - 1) : ~(CumWeight(weights, k) * 8 > d * 100)

DistributedChoice_generate_chunk(p, g, count) ==
    LET values    == DistributedChoice_proportional(p.weights, count, 1)
        remaining == count - Len(values)
    IN  [values |-> values \o [i \in 1..remaining |->
                                  NpRandomChoice(p.weights, RngAdvance(g.np, i))],
         g      |-> [g EXCEPT !.np = RngAdvance(@, remaining)]]

\* PatternStrategy, unique = False: count calls of rstr.xeger, each drawing
\* from random; a value is the position of the string among the p.space
\* strings the pattern matches.
Pattern_generate_chunk(p, g, count) ==
    [values |-> [i \in 1..count |-> RngAdvance(g.py, i) % p.space],
     g      |-> [g EXCEPT !.py = RngAdvance(@, count)]]

\* _initialize_state of the instance's class; __init__ and reset_state both
\* end in it.
Strategy_initialize_state(p, g) ==
    CASE p.kind = "SERIES" ->
            [priv |-> Series_initialize_state(p), g |-> g]
      [] p.kind = "NUMBER_RANGE" ->
            [priv |-> NumberRange_initialize_state(p), g |-> g]
      [] p.kind = "DISTRIBUTED_CHOICE" ->
            [priv |-> [unique_values |-> {}], g |-> SeedGlobal(g, p.seed)]
      [] p.kind = "PATTERN" ->
            [priv |-> [unique_values |-> {}], g |-> SeedGlobal(g, p.seed)]

Strategy_generate_chunk(p, priv, g, count) ==
    CASE p.kind = "SERIES" ->
            LET r == Series_generate_chunk(priv, count)
            IN  [values |-> r.values, priv |-> r.state, g |-> g]
      [] p.kind = "NUMBER_RANGE" ->
            LET r == NumberRange_generate_chunk(p, priv, count)
            IN  [values |-> r.values, priv |-> r.priv, g |-> g]
      [] p.kind = "DISTRIBUTED_CHOICE" ->
            LET r == DistributedChoice_generate_chunk(p, g, count)
            IN  [values |-> r.values, priv |-> priv, g |-> r.g]
      [] p.kind = "PATTERN" ->
            LET r == Pattern_generate_chunk(p, g, count)
            IN  [values |-> r.values, priv |-> priv, g |-> r.g]

\* The instance used alone in a process: constructed, then the calls of ops
\* (reset_state, or generate_chunk with a count) in order.  Returns the
\* values it hands back.
ResetOp == [op |-> "reset_state", count |-> 0]

ChunkOp(n) == [op |-> "generate_chunk", count |-> n]

RECURSIVE RunAlone(_, _, _, _, _)
RunAlone(p, priv, g, ops, k) ==
    IF k > Len(ops) THEN <<>>
    ELSE IF ops[k].op = "reset_state"
         THEN LET r == Strategy_initialize_state(p, g)
              IN  RunAlone(p, r.priv, r.g, ops, k + 1)
         ELSE LET r == Strategy_generate_chunk(p, priv, g, ops[k].count)
              IN  r.values \o RunAlone(p, r.priv, r.g, ops, k + 1)

Alone(p, g0, ops) ==
    LET c == Strategy_initialize_state(p, g0)
    IN  RunAlone(p, c.priv, c.g, ops, 1)

RECURSIVE SumSeq(_)
SumSeq(s) == IF s = <<>> THEN 0 ELSE Head(s) + SumSeq(Tail(s))

(***************************************************************************)
(* Two strategy instances in one process.  A is constructed, then B; after *)
(* that either instance may be reset or asked for a chunk, in any order.   *)
(***************************************************************************)
MaxCalls == 3

MaxChunk == 2

MaxInterference == 2

Seeds == {1, 2}

StrategyParams(kind, seed, start, step, lower, upper, weights, space) ==
    [kind |-> kind, seed |-> seed, start |-> start, step |-> step,
     lower |-> lower, upper |-> upper, weights |-> weights, space |-> space]

Strategies ==
    {StrategyParams("SERIES", 0, 10, st, 0, 0, <<>>, 0) : st \in {1, 2}}
    \cup {StrategyParams("NUMBER_RANGE", sd, 0, 0, 0, 10, <<>>, 0) : sd \in Seeds}
    \cup {StrategyParams("DISTRIBUTED_CHOICE", sd, 0, 0, 0, 0, w, 0) :
             sd \in Seeds, w \in {<<50, 50>>, <<25, 75>>}}
    \cup {StrategyParams("PATTERN", sd, 0, 0, 0, 0, <<>>, 4) : sd \in Seeds}

InitStrat ==
    /\ stA \in Strategies
    /\ stB \in Strategies
    /\ \E g0 \in [py : RngStates, np : RngStates] :
          LET a == Strategy_initialize_state(stA, g0)
              b == Strategy_initialize_state(stB, a.g)
          IN  /\ privA = a.priv
              /\ privB = b.priv
              /\ grng = b.g
    /\ opsA = <<>>
    /\ outAll = <<>>
    /\ sinceOps = <<>>
    /\ outSince = <<>>
    /\ hasReset = FALSE
    /\ interfered = TRUE
    /\ bOps = 0
    /\ ProcIdle /\ WriterIdle /\ OrchIdle /\ FactIdle /\ StreamingIdle

\* A.reset_state()
ResetA ==
    /\ Len(opsA) < MaxCalls
    /\ LET r == Strategy_initialize_state(stA, grng)
       IN  /\ privA' = r.priv
           /\ grng' = r.g
    /\ opsA' = Append(opsA, ResetOp)
    /\ sinceOps' = <<>>
    /\ outSince' = <<>>
    /\ hasReset' = TRUE
    /\ interfered' = FALSE
    /\ UNCHANGED <<stA, stB, privB, outAll, bOps>>
    /\ UNCHANGED <<procVars, writerVars, orchVars, factVars, streamingVars>>

\* A.generate_chunk(count)
GenerateChunkA ==
    /\ Len(opsA) < MaxCalls
    /\ \E count \in 1..MaxChunk :
          LET r == Strategy_generate_chunk(stA, privA, grng, count)
          IN  /\ privA' = r.priv
              /\ grng' = r.g
              /\ opsA' = Append(opsA, ChunkOp(count))
              /\ outAll' = outAll \o r.values
              /\ sinceOps' = Append(sinceOps, count)
              /\ outSince' = outSince \o r.values
    /\ UNCHANGED <<stA, stB, privB, hasReset, interfered, bOps>>
    /\ UNCHANGED <<procVars, writerVars, orchVars, factVars, streamingVars>>

\* B.reset_state()
ResetB ==
    /\ bOps < MaxInterference
    /\ LET r == Strategy_initialize_state(stB, grng)
       IN  /\ privB' = r.priv
           /\ grng' = r.g
    /\ bOps' = bOps + 1
    /\ interfered' = TRUE
    /\ UNCHANGED <<stA, stB, privA, opsA, outAll, sinceOps, outSince, hasReset>>
    /\ UNCHANGED <<procVars, writerVars, orchVars, factVars, streamingVars>>

\* B.generate_chunk(count)
GenerateChunkB ==
    /\ bOps < MaxInterference
    /\ \E count \in 1..MaxChunk :
          LET r == Strategy_generate_chunk(stB, privB, grng, count)
          IN  /\ privB' = r.priv
              /\ grng' = r.g
    /\ bOps' = bOps + 1
    /\ interfered' = TRUE
    /\ UNCHANGED <<stA, stB, privA, opsA, outAll, sinceOps, outSince, hasReset>>
    /\ UNCHANGED <<procVars, writerVars, orchVars, factVars, streamingVars>>

NextStrat == ResetA \/ GenerateChunkA \/ ResetB \/ GenerateChunkB

SpecStrat == InitStrat /\ [][NextStrat]_vars

(***************************************************************************)
(* Writers (core/writers).  A table is given by its number of rows; the    *)
(* sink is the list of row counts that reached the output files or the     *)
(* queue.  What the sink does on one call is an input of the call.         *)
(***************************************************************************)
MaxWrites == 3

MaxChunkRows == 2

MaxFinalize == 1

\* write_output_files(df, file_writers), debug_mode False: an exception of
\* the writer function is swallowed; one raised while the writers are loaded
\* is not.
write_output_files(n, outcome) ==
    CASE outcome = "load_raises"   -> [raised |-> TRUE,  landed |-> <<>>]
      [] outcome = "writer_raises" -> [raised |-> FALSE, landed |-> <<>>]
      [] OTHER                     -> [raised |-> FALSE, landed |-> <<n>>]

FileWriter_write(fw, n, outcome) ==
    IF n = 0
    THEN [w |-> fw, landed |-> <<>>, status |-> "skipped"]
    ELSE LET write_result == write_output_files(n, outcome)
         IN  IF write_result.raised
             THEN [w |-> fw, landed |-> <<>>, status |-> "error"]
             ELSE [w      |-> [total_rows_written |-> fw.total_rows_written + n,
                               files_written      |-> fw.files_written + 1],
                   landed |-> write_result.landed,
                   status |-> "success"]

FileWriter_finalize(fw) == fw

StreamWriter_write(sw, n, outcome) ==
    IF n = 0
    THEN [w |-> sw, landed |-> <<>>, status |-> "skipped"]
    ELSE IF ~sw.queue_producer
    THEN [w |-> sw, landed |-> <<>>, status |-> "error"]
    ELSE IF ~sw.connected \/ outcome = "send_raises"
    THEN \* send_dataframe raises: ConnectionError when not connected
         [w |-> sw, landed |-> <<>>, status |-> "error"]
    ELSE [w      |-> [sw EXCEPT !.total_rows_written = @ + n,
                                !.total_batches_sent = @ + 1],
          landed |-> <<n>>,
          status |-> "success"]

\* finalize: the producer is disconnected and the attribute stays set; when
\* the disconnect itself fails the producer logs it and stays connected.
StreamWriter_finalize(sw, outcome) ==
    [sw EXCEPT !.connected = IF outcome = "disconnect_raises" THEN @ ELSE FALSE]

\* metadata of a write: what the caller of the wrapped writer passes along.
\* A writer used directly gets none; BatchWriter.write passes its batch_info.
NoMetadata == [keys |-> {}, batch_index |-> -1, batch_size |-> -1]

\* An output also keeps, as chunk, the batch_index of the metadata of the
\* call that emitted it, whether or not the output itself carries it.

BatchWriter_batch_info(bw, n) ==
    [keys        |-> {"batch_index", "batch_size", "timestamp"},
     batch_index |-> bw.batches_written,
     batch_size  |-> n]

\* params.output_path of the file_writer configuration.
output_path == "output/data.json"

\* The file a writer function (jsonWriter, csvWriter) leaves behind: the
\* records of the table at output_path; metadata is not passed to it.
FileOutput(n, metadata) ==
    [dest        |-> output_path,
     chunk       |-> metadata.batch_index,
     top         |-> {},
     info_keys   |-> {},
     batch_index |-> -1,
     batch_size  |-> -1,
     rows        |-> -1,
     data        |-> n]

\* AMQPProducer.send_dataframe(df, batch_info) as StreamWriter.write calls
\* it: batch_info is rows, columns, timestamp updated with the metadata.
QueueMessage(n, metadata) ==
    [dest        |-> "queue",
     chunk       |-> metadata.batch_index,
     top         |-> {"batch_info", "data", "metadata"},
     info_keys   |-> {"rows", "columns", "timestamp"} \cup metadata.keys,
     batch_index |-> metadata.batch_index,
     batch_size  |-> metadata.batch_size,
     rows        |-> n,
     data        |-> n]

WriterKinds == {"FileWriter", "StreamWriter",
                "BatchWriter(FileWriter)", "BatchWriter(StreamWriter)"}

UsesFileWriter == wkind \in {"FileWriter", "BatchWriter(FileWriter)"}

IsBatchWriter == wkind \in {"BatchWriter(FileWriter)", "BatchWriter(StreamWriter)"}

SinkOutcomes ==
    IF UsesFileWriter THEN {"ok", "writer_raises", "load_raises"}
    ELSE {"ok", "send_raises"}

WriterState == [file_writer |-> file_writer, stream_writer |-> stream_writer,
                batch_writer |-> batch_writer, sink |-> sink]

InitWriter ==
    /\ wkind \in WriterKinds
    /\ file_writer = [total_rows_written |-> 0, files_written |-> 0]
    /\ stream_writer = [total_rows_written |-> 0, total_batches_sent |-> 0,
                        queue_producer |-> TRUE, connected |-> TRUE]
    /\ batch_writer = [batches_written |-> 0, total_rows_written |-> 0]
    /\ sink = <<>>
    /\ wout = <<>>
    /\ wfinalized = 0
    /\ wcalls = 0
    /\ wlast = [op |-> "none", rows |-> 0, outcome |-> "ok", finalized |-> FALSE,
                status |-> "", raised |-> FALSE, before |-> <<>>]
    /\ ProcIdle /\ StratIdle /\ OrchIdle /\ FactIdle /\ StreamingIdle

\* writer.write(df) on a table of n rows.
Write ==
    /\ wcalls < MaxWrites
    /\ \E n \in 0..MaxChunkRows, outcome \in SinkOutcomes :
          LET actual == IF UsesFileWriter
                        THEN FileWriter_write(file_writer, n, outcome)
                        ELSE StreamWriter_write(stream_writer, n, outcome)
              result == IF IsBatchWriter
                        THEN BatchWriter_write(batch_writer, actual, n)
                        ELSE actual
              metadata == IF IsBatchWriter
                          THEN BatchWriter_batch_info(batch_writer, n)
                          ELSE NoMetadata
          IN  /\ file_writer' = IF UsesFileWriter THEN actual.w ELSE file_writer
              /\ stream_writer' = IF UsesFileWriter THEN stream_writer ELSE actual.w
              /\ batch_writer' = IF IsBatchWriter THEN result.w ELSE batch_writer
              /\ sink' = sink \o actual.landed
              /\ wout' = IF actual.landed = <<>> THEN wout
                         ELSE Append(wout,
                                     IF UsesFileWriter THEN FileOutput(n, metadata)
                                     ELSE QueueMessage(n, metadata))
              /\ wlast' = [op |-> "write", rows |-> n, outcome |-> outcome,
                           finalized |-> wfinalized > 0,
                           status |-> result.status, raised |-> FALSE,
                           before |-> WriterState]
    /\ wcalls' = wcalls + 1
    /\ UNCHANGED <<wkind, wfinalized>>
    /\ UNCHANGED <<procVars, stratVars, orchVars, factVars, streamingVars>>

\* writer.finalize()
Finalize ==
    /\ wfinalized < MaxFinalize
    /\ file_writer' = IF UsesFileWriter THEN FileWriter_finalize(file_writer)
                      ELSE file_writer
    /\ \E outcome \in IF UsesFileWriter THEN {"ok"} ELSE {"ok", "disconnect_raises"} :
          stream_writer' = IF UsesFileWriter THEN stream_writer
                           ELSE StreamWriter_finalize(stream_writer, outcome)
    /\ wfinalized' = wfinalized + 1
    /\ wlast' = [op |-> "finalize", rows |-> 0, outcome |-> "ok",
                 finalized |-> wfinalized > 0, status |-> "", raised |-> FALSE,
                 before |-> WriterState]
    /\ UNCHANGED <<wkind, batch_writer, sink, wout, wcalls>>
    /\ UNCHANGED <<procVars, stratVars, orchVars, factVars, streamingVars>>

NextWriter == Write \/ Finalize

SpecWriter == InitWriter /\ [][NextWriter]_vars

(***************************************************************************)
(* Error handler (core/error/error.py) and exceptions (exceptions/).       *)
(***************************************************************************)
\* The exception classes derived from GenXDataError that the code raises,
\* with the severity each class declares; none is given another severity
\* where it is raised.
ClassSeverity ==
    [InvalidRunningModeException |-> "ERROR",
     InvalidConfigPathException  |-> "ERROR",
     StreamingException          |-> "ERROR",
     BatchProcessingException    |-> "ERROR"]

\* add_error: the severity of a GenXDataError, ERROR for any other exception.
add_error(errors, type) ==
    Append(errors,
           [type     |-> type,
            severity |-> IF type \in DOMAIN ClassSeverity
                         THEN ClassSeverity[type] ELSE "ERROR"])

has_errors(errors) == Len(errors) > 0

has_critical_errors(errors) ==
    \E i \in DOMAIN errors : errors[i].severity = "CRITICAL"

(***************************************************************************)
(* DataOrchestrator.run (core/orchestrator.py), statement by statement.    *)
(* What load_config and the processors do is an input of the step.         *)
(***************************************************************************)
MaxRuns == 2

InitOrch ==
    /\ orch \in [stream : BOOLEAN, batch : BOOLEAN, config_is_path : BOOLEAN]
    /\ opc = "start"
    /\ oexc = ""
    /\ oerrors = <<>>
    /\ odf = FALSE
    /\ oloaded = {}
    /\ ostarted = {}
    /\ oreports = 0
    /\ oret = ""
    /\ oruns = 0
    /\ ProcIdle /\ StratIdle /\ WriterIdle /\ FactIdle /\ StreamingIdle

\* if self.stream and self.batch: raise InvalidRunningModeException(...)
RunCheckMode ==
    /\ opc = "start"
    /\ IF orch.stream /\ orch.batch
       THEN oexc' = "InvalidRunningModeException" /\ opc' = "except"
       ELSE oexc' = oexc /\ opc' = "config_files"
    /\ UNCHANGED <<orch, oerrors, odf, oloaded, ostarted, oreports, oret, oruns>>
    /\ UNCHANGED <<procVars, stratVars, writerVars, factVars, streamingVars>>

\* config_files = get_config_files(self.config) when the config is a path
RunConfigFiles ==
    /\ opc = "config_files"
    /\ \E raises \in IF orch.config_is_path THEN BOOLEAN ELSE {FALSE} :
          IF raises
          THEN oexc' = "InvalidConfigPathException" /\ opc' = "except"
          ELSE oexc' = oexc /\ opc' = "dispatch"
    /\ UNCHANGED <<orch, oerrors, odf, oloaded, ostarted, oreports, oret, oruns>>
    /\ UNCHANGED <<procVars, stratVars, writerVars, factVars, streamingVars>>

\* stream_config = load_config(self.stream), batch_config = load_config(self.batch)
RunLoadConfig ==
    /\ opc = "dispatch"
    /\ orch.stream \/ orch.batch
    /\ \E raises \in BOOLEAN :
          IF raises
          THEN /\ oexc' = "FileNotFoundError"
               /\ opc' = "except"
               /\ oloaded' = oloaded
          ELSE /\ oexc' = oexc
               /\ opc' = "process"
               /\ oloaded' = oloaded \cup {IF orch.stream THEN "stream" ELSE "batch"}
    /\ UNCHANGED <<orch, oerrors, odf, ostarted, oreports, oret, oruns>>
    /\ UNCHANGED <<procVars, stratVars, writerVars, factVars, streamingVars>>

\* return process_streaming_config(...)
RunProcessStreaming ==
    /\ opc = "process"
    /\ orch.stream
    /\ ostarted' = ostarted \cup {"stream"}
    /\ \E raises \in BOOLEAN :
          IF raises
          THEN oexc' = "StreamingException" /\ opc' = "except" /\ oret' = oret
          ELSE oexc' = oexc /\ opc' = "finally" /\ oret' = "value"
    /\ UNCHANGED <<orch, oerrors, odf, oloaded, oreports, oruns>>
    /\ UNCHANGED <<procVars, stratVars, writerVars, factVars, streamingVars>>

\* return process_batch_config(...)
RunProcessBatch ==
    /\ opc = "process"
    /\ ~orch.stream /\ orch.batch
    /\ ostarted' = ostarted \cup {"batch"}
    /\ \E raises \in BOOLEAN :
          IF raises
          THEN oexc' = "BatchProcessingException" /\ opc' = "except" /\ oret' = oret
          ELSE oexc' = oexc /\ opc' = "finally" /\ oret' = "value"
    /\ UNCHANGED <<orch, oerrors, odf, oloaded, oreports, oruns>>
    /\ UNCHANGED <<procVars, stratVars, writerVars, factVars, streamingVars>>

\* df = self.process_config(); return {'df': ...}.  process_config records an
\* InvalidConfigParamException of the validation and goes on; an exception of
\* a strategy it records and raises again.
RunProcessConfig ==
    /\ opc = "dispatch"
    /\ ~orch.stream /\ ~orch.batch
    /\ ostarted' = ostarted \cup {"normal"}
    /\ \E invalid \in BOOLEAN, raises \in BOOLEAN :
          LET validated == IF invalid
                           THEN add_error(oerrors, "InvalidConfigParamException")
                           ELSE oerrors
          IN  IF raises
              THEN /\ oerrors' = add_error(validated, "ValueError")
                   /\ oexc' = "ValueError"
                   /\ opc' = "except"
                   /\ UNCHANGED <<odf, oret>>
              ELSE /\ oerrors' = validated
                   /\ oexc' = oexc
                   /\ odf' = TRUE
                   /\ opc' = "finally"
                   /\ oret' = "value"
    /\ UNCHANGED <<orch, oloaded, oreports, oruns>>
    /\ UNCHANGED <<procVars, stratVars, writerVars, factVars, streamingVars>>

\* except Exception as e: self.error_handler.add_error(e)
RunExcept ==
    /\ opc = "except"
    /\ oerrors' = add_error(oerrors, oexc)
    /\ oexc' = ""
    /\ opc' = "finally"
    /\ UNCHANGED <<orch, odf, oloaded, ostarted, oreports, oret, oruns>>
    /\ UNCHANGED <<procVars, stratVars, writerVars, factVars, streamingVars>>

\* finally: the report, return None on a critical error; then the value the
\* try block returned, or return df when the except clause was taken.
RunFinally ==
    /\ opc = "finally"
    /\ oreports' = IF has_errors(oerrors) THEN oreports + 1 ELSE oreports
    /\ oret' = IF has_critical_errors(oerrors) THEN "None"
               ELSE IF oret = "value" THEN "value"
               ELSE IF odf THEN "df"
               ELSE "UnboundLocalError"
    /\ opc' = "returned"
    /\ oruns' = oruns + 1
    /\ UNCHANGED <<orch, oexc, oerrors, odf, oloaded, ostarted>>
    /\ UNCHANGED <<procVars, stratVars, writerVars, factVars, streamingVars>>

\* run() is called again on the same object: the error handler keeps its errors.
RunAgain ==
    /\ opc = "returned"
    /\ oruns < MaxRuns
    /\ opc' = "start"
    /\ odf' = FALSE
    /\ oret' = ""
    /\ oloaded' = {}
    /\ ostarted' = {}
    /\ UNCHANGED <<orch, oexc, oerrors, oreports, oruns>>
    /\ UNCHANGED <<procVars, stratVars, writerVars, factVars, streamingVars>>

NextOrch ==
    \/ RunCheckMode \/ RunConfigFiles \/ RunLoadConfig \/ RunProcessStreaming
    \/ RunProcessBatch \/ RunProcessConfig \/ RunExcept \/ RunFinally \/ RunAgain

SpecOrch == InitOrch /\ [][NextOrch]_vars

(***************************************************************************)
(* The strategy registry (core/strategy_mapping.py) and                    *)
(* StrategyFactory.create_strategy with every way it can fail.  An         *)
(* exception is a record of its class and of the names and numbers its     *)
(* message mentions.                                                       *)
(***************************************************************************)
NoException == [type |-> "", mentions |-> {}]

InvalidConfigParamException(mentions) ==
    [type |-> "InvalidConfigParamException", mentions |-> mentions]

STRATEGY_MAP ==
    [n \in {"RANDOM_NUMBER_RANGE_STRATEGY", "DISTRIBUTED_NUMBER_RANGE_STRATEGY",
            "DATE_GENERATOR_STRATEGY", "PATTERN_STRATEGY", "SERIES_STRATEGY",
            "DISTRIBUTED_CHOICE_STRATEGY", "TIME_RANGE_STRATEGY",
            "DISTRIBUTED_TIME_RANGE_STRATEGY", "REPLACEMENT_STRATEGY",
            "CONCAT_STRATEGY", "RANDOM_NAME_STRATEGY", "DELETE_STRATEGY"} |->
        CASE n = "RANDOM_NUMBER_RANGE_STRATEGY" ->
                <<"NumberRangeStrategy", "NumberRangeConfig">>
          [] n = "DISTRIBUTED_NUMBER_RANGE_STRATEGY" ->
                <<"DistributedNumberRangeStrategy", "DistributedNumberRangeConfig">>
          [] n = "DATE_GENERATOR_STRATEGY" ->
                <<"DateGeneratorStrategy", "DateRangeConfig">>
          [] n = "PATTERN_STRATEGY" -> <<"PatternStrategy", "PatternConfig">>
          [] n = "SERIES_STRATEGY" -> <<"SeriesStrategy", "SeriesConfig">>
          [] n = "DISTRIBUTED_CHOICE_STRATEGY" ->
                <<"DistributedChoiceStrategy", "DistributedChoiceConfig">>
          [] n = "TIME_RANGE_STRATEGY" -> <<"TimeRangeStrategy", "TimeRangeConfig">>
          [] n = "DISTRIBUTED_TIME_RANGE_STRATEGY" ->
                <<"DistributedTimeRangeStrategy", "DistributedTimeRangeConfig">>
          [] n = "REPLACEMENT_STRATEGY" -> <<"ReplacementStrategy", "ReplacementConfig">>
          [] n = "CONCAT_STRATEGY" -> <<"ConcatStrategy", "ConcatConfig">>
          [] n = "RANDOM_NAME_STRATEGY" -> <<"RandomNameStrategy", "BaseConfig">>
          [] n = "DELETE_STRATEGY" -> <<"DeleteStrategy", "BaseConfig">>]

\* get_strategy_class and get_config_class: the entry of the map, or
\* UnsupportedStrategyException("Unsupported strategy: <name>").
get_strategy_class(strategy_name) ==
    IF strategy_name \in DOMAIN STRATEGY_MAP
    THEN [ok |-> TRUE, class |-> STRATEGY_MAP[strategy_name][1], exc |-> NoException]
    ELSE [ok |-> FALSE, class |-> "",
          exc |-> [type |-> "UnsupportedStrategyException",
                   mentions |-> {strategy_name}]]

get_config_class(strategy_name) ==
    IF strategy_name \in DOMAIN STRATEGY_MAP
    THEN [ok |-> TRUE, class |-> STRATEGY_MAP[strategy_name][2], exc |-> NoException]
    ELSE [ok |-> FALSE, class |-> "",
          exc |-> [type |-> "UnsupportedStrategyException",
                   mentions |-> {strategy_name}]]

\* The methods BaseStrategy declares abstract, and the ones a class defines.
AbstractMethods ==
    {"_validate_params", "generate_data", "generate_chunk", "reset_state",
     "get_current_state"}

ClassMethods(class) ==
    IF class \in {"DeleteStrategy", "DistributedTimeRangeStrategy"}
    THEN {"_validate_params", "generate_data"}
    ELSE AbstractMethods

\* config.validate() of each config class: the exception it raises, or
\* NoException.  A weights list stands for the choices or ranges, each with
\* valid bounds.
Config_validate(config_class, params) ==
    CASE config_class = "NumberRangeConfig" ->
            IF params.start >= params.end
            THEN InvalidConfigParamException({ToString(params.start),
                                              ToString(params.end)})
            ELSE NoException
      [] config_class \in {"DistributedNumberRangeConfig",
                           "DistributedTimeRangeConfig"} ->
            IF params.weights = <<>>
            THEN InvalidConfigParamException({})
            ELSE IF \E i \in DOMAIN params.weights :
                        params.weights[i] <= 0 \/ params.weights[i] > 100
            THEN \* the item's exception is formatted with str(e)
                 Exception_str(InvalidConfigParamException({})).exc
            ELSE IF SumSeq(params.weights) # 100
            THEN InvalidConfigParamException({"100", ToString(SumSeq(params.weights))})
            ELSE NoException
      [] config_class = "DistributedChoiceConfig" ->
            IF params.weights = <<>>
               \/ \E i \in DOMAIN params.weights : params.weights[i] <= 0
            THEN InvalidConfigParamException({})
            ELSE NoException
      [] config_class = "TimeRangeConfig" ->
            IF params.start_time >= params.end_time
            THEN InvalidConfigParamException({ToString(params.start_time),
                                              ToString(params.end_time)})
            ELSE NoException
      [] OTHER -> NoException

\* self._validate_params() of each strategy class, run by
\* BaseStrategy.__init__.
Strategy_validate_params(class, params) ==
    CASE class = "DistributedChoiceStrategy" ->
            IF SumSeq(params.weights) # 100
            THEN InvalidConfigParamException({"100"})
            ELSE NoException
      [] class = "DistributedNumberRangeStrategy" ->
            IF SumSeq(params.weights) # 100
            THEN InvalidConfigParamException({"100", ToString(SumSeq(params.weights))})
            ELSE NoException
      [] OTHER -> NoException

\* strategy_class(**kwargs): a class that leaves an abstract method
\* undefined cannot be instantiated (TypeError); otherwise __init__ runs
\* _validate_params.
Strategy_new(class, params) ==
    IF AbstractMethods \ ClassMethods(class) # {}
    THEN [type |-> "TypeError",
          mentions |-> {class} \cup (AbstractMethods \ ClassMethods(class))]
    ELSE Strategy_validate_params(class, params)

\* except Exception as e: logger.error(... str(e)); raise ValueError(
\* f"Could not create strategy {strategy_name}: {str(e)}").  The exception
\* the caller of create_strategy sees.
create_strategy_except(strategy_name, e) ==
    LET text == Exception_str(e)
    IN  IF ~text.ok THEN text.exc
        ELSE [type |-> "ValueError", mentions |-> {strategy_name} \cup e.mentions]

\* create_strategy(strategy_name, params=params): the class looked up, the
\* config validated, the instance built; step names the last step reached.
StrategyFactory_create_strategy(strategy_name, params) ==
    LET sc == get_strategy_class(strategy_name)
        cc == get_config_class(strategy_name)
        failed(step, e) == [instance |-> "", step |-> step,
                            exc |-> create_strategy_except(strategy_name, e)]
    IN  IF ~sc.ok THEN failed("lookup", sc.exc)
        ELSE IF ~cc.ok THEN failed("lookup", cc.exc)
        ELSE LET v == Config_validate(cc.class, params)
             IN  IF v # NoException THEN failed("validate", v)
                 ELSE LET n == Strategy_new(sc.class, params)
                      IN  IF n # NoException THEN failed("instantiate", n)
                          ELSE [instance |-> sc.class, step |-> "instantiate",
                                exc |-> NoException]

\* The try around create_strategy in the orchestrator: the except clause
\* that catches e, what it adds to the error handler and whether it raises
\* again.
Orchestrator_except(e) ==
    IF e.type = "UnsupportedStrategyException"
    THEN [handler |-> "except UnsupportedStrategyException",
          recorded |-> e.type, raised |-> FALSE]
    ELSE [handler |-> "except Exception", recorded |-> e.type, raised |-> TRUE]

(***************************************************************************)
(* The methods of an instance the factory returned.  config.to_dict()      *)
(* carries the fields of the config class only, so the instance has no     *)
(* seed and _initialize_state leaves the process-wide generators alone.    *)
(***************************************************************************)
\* 24 * 3600, the seconds of a day.
DaySeconds == 86400

\* random.randint(a, b) on the draw d of the generator.
RandomRandint(a, b, d) == a + ((b - a) * d) \div 7

\* TimeRangeStrategy.generate_chunk: count times between start_time and
\* end_time, as seconds since midnight; an end before the start is moved to
\* the next day and the time drawn is taken modulo 24 hours.
TimeRange_generate_chunk(p, g, count) ==
    LET start_seconds == p.start_time
        end_seconds   == IF p.end_time < p.start_time
                         THEN p.end_time + DaySeconds ELSE p.end_time
    IN  [values |-> [i \in 1..count |->
                        RandomRandint(start_seconds, end_seconds,
                                      RngAdvance(g.py, i)) % DaySeconds],
         g      |-> [g EXCEPT !.py = RngAdvance(@, count)]]

\* PatternStrategy.generate_chunk, unique = True: max_attempts, and the loop
\* that draws a string and keeps it when it is not in _unique_values.
Pattern_max_attempts(count) == count * 3

\* The loop without the membership test: every string drawn is kept.
Pattern_loop_keeps_duplicates(p, unique_values, py, result, attempts, count) ==
    LET values == [i \in 1..count |-> RngAdvance(py, i) % p.space]
    IN  [result |-> values, unique_values |-> unique_values \cup SeqToSet(values),
         py |-> RngAdvance(py, count), attempts |-> count]

RECURSIVE Pattern_unique_loop(_, _, _, _, _, _)
Pattern_unique_loop(p, unique_values, py, result, attempts, count) ==
    IF Len(result) < count /\ attempts < Pattern_max_attempts(count)
    THEN LET value == RngNext(py) % p.space
         IN  IF value \notin unique_values
             THEN Pattern_unique_loop(p, unique_values \cup {value}, RngNext(py),
                                      Append(result, value), attempts + 1, count)
             ELSE Pattern_unique_loop(p, unique_values, RngNext(py), result,
                                      attempts + 1, count)
    ELSE [result |-> result, unique_values |-> unique_values, py |-> py,
          attempts |-> attempts]

\* The results the unique branch may return: the values of the loop, padded
\* with np.random.choice(list(self._unique_values)), any element of the set
\* for each missing value.
Pattern_generate_chunk_unique(p, priv, g, count) ==
    LET r         == Pattern_unique_loop(p, priv.unique_values, g.py, <<>>, 0, count)
        remaining == IF Len(r.result) < count THEN count - Len(r.result) ELSE 0
    IN  {[values |-> r.result \o padding,
          fresh  |-> Len(r.result),
          draws  |-> r.attempts,
          priv   |-> [priv EXCEPT !.unique_values = r.unique_values],
          g      |-> [py |-> r.py, np |-> RngAdvance(g.np, remaining)]] :
            padding \in [1..remaining -> r.unique_values]}

\* The classes whose generate_chunk is modelled.
ChunkClasses ==
    {"SeriesStrategy", "DistributedChoiceStrategy", "PatternStrategy",
     "TimeRangeStrategy"}

\* _initialize_state of a new or reset instance.
Instance_initialize_state(class, p) ==
    CASE class = "SeriesStrategy"  -> Series_initialize_state(p)
      [] class = "PatternStrategy" -> [unique_values |-> {}]
      [] OTHER                     -> [stateful |-> TRUE]

\* generate_chunk(count) of the instance: the outcomes it may have.
Instance_generate_chunk(class, req, priv, g, count) ==
    LET p == req.params
        out(values, fresh, draws, priv2, g2, exc) ==
            [values |-> values, fresh |-> fresh, draws |-> draws, priv |-> priv2,
             g |-> g2, exc |-> exc]
    IN  CASE class = "SeriesStrategy" ->
                LET r == Series_generate_chunk(priv, count)
                IN  {out(r.values, Len(r.values), 0, r.state, g, r.exc)}
          [] class = "DistributedChoiceStrategy" ->
                LET r == DistributedChoice_generate_chunk(p, g, count)
                IN  {out(r.values, Len(r.values), 0, priv, r.g, "")}
          [] class = "TimeRangeStrategy" ->
                LET r == TimeRange_generate_chunk(p, g, count)
                IN  {out(r.values, Len(r.values), 0, priv, r.g, "")}
          [] class = "PatternStrategy" /\ req.unique ->
                {out(r.values, r.fresh, r.draws, r.priv, r.g, "") :
                    r \in Pattern_generate_chunk_unique(p, priv, g, count)}
          [] class = "PatternStrategy" /\ ~req.unique ->
                LET r == Pattern_generate_chunk(p, g, count)
                IN  {out(r.values, Len(r.values), count, priv, r.g, "")}

(***************************************************************************)
(* One create_strategy call and the calls on the instance it returns.      *)
(***************************************************************************)
MaxFactCalls == 2

MaxCount == 3

\* The thirteen strategy names of the documentation; the registry lacks
\* DISTRIBUTED_DATE_RANGE_STRATEGY.
DocumentedStrategyNames ==
    DOMAIN STRATEGY_MAP \cup {"DISTRIBUTED_DATE_RANGE_STRATEGY"}

DistributedNames ==
    {"DISTRIBUTED_CHOICE_STRATEGY", "DISTRIBUTED_NUMBER_RANGE_STRATEGY",
     "DISTRIBUTED_DATE_RANGE_STRATEGY", "DISTRIBUTED_TIME_RANGE_STRATEGY"}

WeightsOK == {<<100>>, <<50, 50>>, <<25, 75>>}

WeightsOff == {<<30, 30, 30>>, <<50, 25>>, <<75, 50>>}

Request(name, params, unique, valid) ==
    [name |-> name, params |-> params, unique |-> unique, valid |-> valid]

\* The calls made: valid marks the params the documentation accepts.
Requests ==
    {Request("SERIES_STRATEGY", [start |-> 10, step |-> st], FALSE, TRUE) :
        st \in {-1, 0, 1, 2}}
    \cup {Request("RANDOM_NUMBER_RANGE_STRATEGY", [start |-> 0, end |-> e], FALSE,
                  e > 0) : e \in {0, 10}}
    \cup {Request(n, [weights |-> w], FALSE, w \in WeightsOK) :
             n \in DistributedNames, w \in WeightsOK \cup WeightsOff}
    \cup {Request("PATTERN_STRATEGY", [space |-> sp], u, TRUE) :
             sp \in {2, 3}, u \in BOOLEAN}
    \cup {Request("TIME_RANGE_STRATEGY", [start_time |-> s, end_time |-> e], FALSE,
                  s # e) : s \in {3600, 82800}, e \in {3600, 7200}}
    \cup {Request(n, [mask |-> MaskAll], FALSE, TRUE) :
             n \in {"DATE_GENERATOR_STRATEGY", "RANDOM_NAME_STRATEGY",
                    "REPLACEMENT_STRATEGY", "CONCAT_STRATEGY", "DELETE_STRATEGY",
                    "UNKNOWN_STRATEGY"}}

InitFact ==
    /\ freq \in Requests
    /\ fpc = "new"
    /\ finst = ""
    /\ fexc = NoException
    /\ fhandled = [handler |-> "", recorded |-> "", raised |-> FALSE]
    /\ fpriv = [stateful |-> FALSE]
    /\ frng \in [py : RngStates, np : {0, 5}]
    /\ flast = [op |-> "", count |-> 0, values |-> <<>>, fresh |-> 0, draws |-> 0,
                exc |-> "", since |-> {}]
    /\ fsince = {}
    /\ fcalls = 0
    /\ ProcIdle /\ StratIdle /\ WriterIdle /\ OrchIdle /\ StreamingIdle

\* strategy_factory.create_strategy(strategy_name, **params) inside the
\* caller's try.
CreateStrategy ==
    /\ fpc = "new"
    /\ LET r == StrategyFactory_create_strategy(freq.name, freq.params)
       IN  IF r.instance # ""
           THEN /\ fpc' = "created"
                /\ finst' = r.instance
                /\ fpriv' = Instance_initialize_state(r.instance, freq.params)
                /\ UNCHANGED <<fexc, fhandled>>
           ELSE /\ fpc' = "failed"
                /\ fexc' = r.exc
                /\ fhandled' = Orchestrator_except(r.exc)
                /\ UNCHANGED <<finst, fpriv>>
    /\ UNCHANGED <<freq, frng, flast, fsince, fcalls>>
    /\ UNCHANGED <<procVars, stratVars, writerVars, orchVars, streamingVars>>

\* instance.generate_chunk(count)
GenerateChunk ==
    /\ fpc = "created"
    /\ finst \in ChunkClasses
    /\ fcalls < MaxFactCalls
    /\ \E count \in 0..MaxCount :
          \E r \in Instance_generate_chunk(finst, freq, fpriv, frng, count) :
              /\ fpriv' = r.priv
              /\ frng' = r.g
              /\ flast' = [op |-> "generate_chunk", count |-> count,
                           values |-> r.values, fresh |-> r.fresh,
                           draws |-> r.draws, exc |-> r.exc, since |-> fsince]
              /\ fsince' = fsince \cup SeqToSet(r.values)
    /\ fcalls' = fcalls + 1
    /\ UNCHANGED <<freq, fpc, finst, fexc, fhandled>>
    /\ UNCHANGED <<procVars, stratVars, writerVars, orchVars, streamingVars>>

\* instance.reset_state()
ResetState ==
    /\ fpc = "created"
    /\ finst \in ChunkClasses
    /\ fcalls < MaxFactCalls
    /\ fpriv' = Instance_initialize_state(finst, freq.params)
    /\ flast' = [flast EXCEPT !.op = "reset_state"]
    /\ fsince' = {}
    /\ fcalls' = fcalls + 1
    /\ UNCHANGED <<freq, fpc, finst, fexc, fhandled, frng>>
    /\ UNCHANGED <<procVars, stratVars, writerVars, orchVars, streamingVars>>

NextFact == CreateStrategy \/ GenerateChunk \/ ResetState

SpecFact == InitFact /\ [][NextFact]_vars

(***************************************************************************)
(* StreamingBatchProcessor (core/streaming/streaming_batch_processor.py):  *)
(* chunks are generated into a buffer and the buffer is written as one     *)
(* batch once it holds batch_size rows.  What the strategies and the batch *)
(* writer do on one call (return or raise) is an input of the step.        *)
(***************************************************************************)
MaxTargetRows == 6

MaxBatchSize == 4

MaxChunkSize == 4

\* __init__: chunk_size is capped at batch_size; buffer and counters empty.
StreamingBatchProcessor_init(target_rows, batch_size, chunk_size) ==
    [target_rows     |-> target_rows,
     batch_size      |-> batch_size,
     chunk_size      |-> Min(chunk_size, batch_size),
     buffer          |-> 0,
     total_generated |-> 0,
     batch_count     |-> 0]

\* _write_and_clear_buffer: nothing for an empty buffer; otherwise the whole
\* buffer is one batch, stamped with batch_count, and an exception of
\* write_batch leaves buffer and batch_count as they were.
_write_and_clear_buffer(p, written, write_ok) ==
    IF p.buffer = 0
    THEN [p |-> p, written |-> written, raised |-> FALSE]
    ELSE IF ~write_ok
    THEN [p |-> p, written |-> written, raised |-> TRUE]
    ELSE [p       |-> [p EXCEPT !.buffer = 0, !.batch_count = @ + 1],
          written |-> Append(written, [batch_index |-> p.batch_count,
                                       batch_size  |-> p.buffer,
                                       rows        |-> p.buffer]),
          raised  |-> FALSE]

InitBatch ==
    /\ \E target_rows \in 1..MaxTargetRows, batch_size \in 1..MaxBatchSize,
          chunk_size \in 1..MaxChunkSize :
          sbp = StreamingBatchProcessor_init(target_rows, batch_size, chunk_size)
    /\ sbp_pc = "loop"
    /\ sbp_written = <<>>
    /\ sbp_finalized = 0
    /\ ProcIdle /\ StratIdle /\ WriterIdle /\ OrchIdle /\ FactIdle /\ StreamIdle
    /\ AmqpIdle

\* One iteration of the loop of process().
ProcessChunk ==
    /\ sbp_pc = "loop"
    /\ sbp.total_generated < sbp.target_rows
    /\ \E generate_ok \in BOOLEAN, write_ok \in BOOLEAN :
          LET remaining_rows == sbp.target_rows - sbp.total_generated
              chunk_size     == Min(sbp.chunk_size, remaining_rows)
              extended       == [sbp EXCEPT !.buffer = @ + chunk_size,
                                            !.total_generated = @ + chunk_size]
              w == IF extended.buffer >= extended.batch_size
                   THEN _write_and_clear_buffer(extended, sbp_written, write_ok)
                   ELSE [p |-> extended, written |-> sbp_written, raised |-> FALSE]
          IN  IF ~generate_ok
              THEN /\ sbp_pc' = "raised"
                   /\ UNCHANGED <<sbp, sbp_written>>
              ELSE /\ sbp' = w.p
                   /\ sbp_written' = w.written
                   /\ sbp_pc' = IF w.raised THEN "raised" ELSE "loop"
    /\ UNCHANGED sbp_finalized
    /\ UNCHANGED <<procVars, stratVars, writerVars, orchVars, factVars, streamVars,
                   amqpVars>>

\* After the loop: the rest of the buffer is written, the writer finalized.
ProcessFinish ==
    /\ sbp_pc = "loop"
    /\ ~(sbp.total_generated < sbp.target_rows)
    /\ \E write_ok \in BOOLEAN :
          LET w == _write_and_clear_buffer(sbp, sbp_written, write_ok)
          IN  /\ sbp' = w.p
              /\ sbp_written' = w.written
              /\ sbp_pc' = IF w.raised THEN "raised" ELSE "done"
              /\ sbp_finalized' = IF w.raised THEN sbp_finalized
                                  ELSE sbp_finalized + 1
    /\ UNCHANGED <<procVars, stratVars, writerVars, orchVars, factVars, streamVars,
                   amqpVars>>

NextBatch == ProcessChunk \/ ProcessFinish

SpecBatch == InitBatch /\ [][NextBatch]_vars

(***************************************************************************)
(* Batch utilities (core/batch_processing/batch_utils.py) and              *)
(* process_streaming_config (core/streaming/stream_processor.py), which    *)
(* cuts the run into batches, prepares one configuration per batch and     *)
(* sends each generated batch to the queue.  process_config is taken to be *)
(* callable the way process_streaming_config calls it; whether the queue   *)
(* producer connects is an input of the first step.                        *)
(***************************************************************************)
\* Python's // and % (floor division; the remainder has the sign of b).
PyFloorDiv(a, b) ==
    IF b > 0 THEN a \div b ELSE -((a + (-b) - 1) \div (-b))

PyMod(a, b) == a - b * PyFloorDiv(a, b)

\* [x] * n
Repeat(x, n) == [i \in 1..n |-> x]

\* get_batches(batch_size, rows); batch_size 0 raises ZeroDivisionError.
get_batches(batch_size, rows) ==
    LET full_batches == PyFloorDiv(rows, batch_size)
        remainder    == PyMod(rows, batch_size)
        full         == Repeat(batch_size, full_batches)
    IN  IF remainder # 0
        THEN IF remainder <= 100 /\ full # <<>>
             THEN [full EXCEPT ![Len(full)] = @ + remainder]
             ELSE Append(full, remainder)
        ELSE full

\* sum(list[:k])
RECURSIVE SumFirst(_, _)
SumFirst(list, k) ==
    IF k <= 0 \/ list = <<>> THEN 0 ELSE Head(list) + SumFirst(Tail(list), k - 1)

\* adjust_strategy_params for a Series: start moved by cumulative_rows steps.
adjust_strategy_params(params, cumulative_rows) ==
    [params EXCEPT !.start = params.start + cumulative_rows * params.step]

\* prepare_batch_config: a deep copy of the configuration with num_of_rows
\* the size of the batch and the Series start adjusted; the rows before the
\* batch are counted on get_batches(SETTINGS.STREAM_BATCH_SIZE, num_of_rows).
prepare_batch_config(original_config, size, index, default_batch_size) ==
    LET cumulative_rows ==
            SumFirst(get_batches(default_batch_size, original_config.num_of_rows),
                     index)
    IN  [original_config EXCEPT
            !.num_of_rows = size,
            !.params = adjust_strategy_params(@, cumulative_rows)]

\* process_config on a batch configuration: num_of_rows rows, at least the
\* minimum, of the Series from the start of the configuration.
process_config(batch_config) ==
    LET rows == IF batch_config.num_of_rows < MINIMUM_ROWS_ALLOWED
                THEN MINIMUM_ROWS_ALLOWED ELSE batch_config.num_of_rows
    IN  Series_generate_data(batch_config.params, rows)

MaxStreamRows == 7

MaxStreamBatchSize == 3

\* The runs explored: few rows in small batches, and hundreds of rows in
\* batches of hundreds, where the remainder is above or below the threshold
\* of get_batches.
LargeBatchSize == 200

RunChoices ==
    ((1..MaxStreamRows) \X (-2..MaxStreamBatchSize))
        \cup ({LargeBatchSize + 50, LargeBatchSize + 150} \X {LargeBatchSize})

InitStream ==
    /\ \E run \in RunChoices, step \in {1, 2} :
          /\ config_file = [num_of_rows |-> run[1],
                            params      |-> [start |-> 10, step |-> step]]
          /\ stream_config = [batch_size |-> run[2]]
    /\ STREAM_BATCH_SIZE \in {2, LargeBatchSize}
    /\ psc_pc = "start"
    /\ batches = <<>>
    /\ batch_index = 0
    /\ psc_sent = <<>>
    /\ ProcIdle /\ StratIdle /\ WriterIdle /\ OrchIdle /\ FactIdle /\ BatchIdle
    /\ AmqpIdle

\* Up to the loop: the batches are computed and the producer connected.
StreamStart ==
    /\ psc_pc = "start"
    /\ \E connect_ok \in BOOLEAN :
          IF stream_config.batch_size = 0
          THEN /\ psc_pc' = "raised"
               /\ UNCHANGED batches
          ELSE /\ batches' = get_batches(stream_config.batch_size,
                                         config_file.num_of_rows)
               /\ psc_pc' = IF connect_ok THEN "loop" ELSE "raised"
    /\ UNCHANGED <<config_file, stream_config, STREAM_BATCH_SIZE, batch_index,
                   psc_sent>>
    /\ UNCHANGED <<procVars, stratVars, writerVars, orchVars, factVars, batchVars,
                   amqpVars>>

\* One iteration: prepare_batch_config, process_config, send_dataframe.
StreamBatch ==
    /\ psc_pc = "loop"
    /\ batch_index < Len(batches)
    /\ \E send_ok \in BOOLEAN :
          LET size         == batches[batch_index + 1]
              batch_config == prepare_batch_config(config_file, size, batch_index,
                                                   STREAM_BATCH_SIZE)
              df           == process_config(batch_config)
          IN  IF send_ok
              THEN /\ psc_sent' = Append(psc_sent,
                                         [batch_index |-> batch_index,
                                          batch_size  |-> size,
                                          start       |-> batch_config.params.start,
                                          rows        |-> Len(df),
                                          first       |-> df[1]])
                   /\ batch_index' = batch_index + 1
                   /\ UNCHANGED psc_pc
              ELSE /\ psc_pc' = "raised"
                   /\ UNCHANGED <<psc_sent, batch_index>>
    /\ UNCHANGED <<config_file, stream_config, STREAM_BATCH_SIZE, batches>>
    /\ UNCHANGED <<procVars, stratVars, writerVars, orchVars, factVars, batchVars,
                   amqpVars>>

\* After the loop: the producer is disconnected and the last batch returned.
StreamDone ==
    /\ psc_pc = "loop"
    /\ ~(batch_index < Len(batches))
    /\ psc_pc' = "done"
    /\ UNCHANGED <<config_file, stream_config, STREAM_BATCH_SIZE, batches,
                   batch_index, psc_sent>>
    /\ UNCHANGED <<procVars, stratVars, writerVars, orchVars, factVars, batchVars,
                   amqpVars>>

NextStream == StreamStart \/ StreamBatch \/ StreamDone

SpecStream == InitStream /\ [][NextStream]_vars

(***************************************************************************)
(* AMQPProducer (queue/amqp_producer.py) as process_streaming_config uses  *)
(* it: connect, one send_dataframe per batch, disconnect.  Two threads:    *)
(* the caller, and the container thread that connect() starts and that     *)
(* runs the handler callbacks.  What the proton container does with an     *)
(* unreachable broker is an input of the callbacks.                        *)
(***************************************************************************)
ConnectTimeout == 10

MaxQueueBatches == 2

InitAmqp ==
    /\ reachable \in BOOLEAN
    /\ aq_main = "start"
    /\ aq_container = "idle"
    /\ _connected = FALSE
    /\ connection_ready = FALSE
    /\ sender = "none"
    /\ aq_link = "none"
    /\ aq_elapsed = 0
    /\ aq_returned = "none"
    /\ aq_generated = 0
    /\ aq_sent = 0
    /\ aq_error = ""
    /\ ProcIdle /\ StratIdle /\ WriterIdle /\ OrchIdle /\ FactIdle /\ BatchIdle
    /\ StreamIdle

\* connect(), up to connection_ready.wait: the container thread is started.
AmqpConnect ==
    /\ aq_main = "start"
    /\ IF _connected
       THEN /\ aq_main' = "connected"
            /\ aq_returned' = aq_link
            /\ UNCHANGED aq_container
       ELSE /\ aq_main' = "waiting"
            /\ aq_container' = "started"
            /\ UNCHANGED aq_returned
    /\ UNCHANGED <<reachable, _connected, connection_ready, sender, aq_link,
                   aq_elapsed, aq_generated, aq_sent, aq_error>>
    /\ UNCHANGED <<procVars, stratVars, writerVars, orchVars, factVars, batchVars,
                   streamVars>>

\* on_start on the container thread: container.connect and create_sender
\* start the connection and the link and return, then _connected and the
\* event are set; or one of them raises and only the event is set.
on_start ==
    /\ aq_container = "started"
    /\ \E raises \in BOOLEAN :
          IF raises
          THEN /\ connection_ready' = TRUE
               /\ aq_container' = "stopped"
               /\ UNCHANGED <<_connected, sender, aq_link>>
          ELSE /\ aq_link' = "pending"
               /\ sender' = "created"
               /\ _connected' = TRUE
               /\ connection_ready' = TRUE
               /\ aq_container' = "running"
    /\ UNCHANGED <<reachable, aq_main, aq_elapsed, aq_returned, aq_generated,
                   aq_sent, aq_error>>
    /\ UNCHANGED <<procVars, stratVars, writerVars, orchVars, factVars, batchVars,
                   streamVars>>

\* The broker answers: the connection is open.
ConnectionOpens ==
    /\ aq_container = "running"
    /\ aq_link = "pending"
    /\ reachable
    /\ aq_link' = "open"
    /\ UNCHANGED <<reachable, aq_main, aq_container, _connected, connection_ready,
                   sender, aq_elapsed, aq_returned, aq_generated, aq_sent,
                   aq_error>>
    /\ UNCHANGED <<procVars, stratVars, writerVars, orchVars, factVars, batchVars,
                   streamVars>>

\* The broker cannot be reached: the container reports it either as a
\* connection error (on_connection_error) or as a transport error, for which
\* the producer has no handler.
ConnectionFails ==
    /\ aq_container = "running"
    /\ aq_link = "pending"
    /\ ~reachable
    /\ aq_link' = "failed"
    /\ \E on_connection_error \in BOOLEAN :
          IF on_connection_error
          THEN /\ _connected' = FALSE
               /\ connection_ready' = TRUE
          ELSE UNCHANGED <<_connected, connection_ready>>
    /\ UNCHANGED <<reachable, aq_main, aq_container, sender, aq_elapsed,
                   aq_returned, aq_generated, aq_sent, aq_error>>
    /\ UNCHANGED <<procVars, stratVars, writerVars, orchVars, factVars, batchVars,
                   streamVars>>

\* One second passes in connection_ready.wait(timeout=10).
WaitTick ==
    /\ aq_main = "waiting"
    /\ aq_elapsed < ConnectTimeout
    /\ aq_elapsed' = aq_elapsed + 1
    /\ UNCHANGED <<reachable, aq_main, aq_container, _connected, connection_ready,
                   sender, aq_link, aq_returned, aq_generated, aq_sent, aq_error>>
    /\ UNCHANGED <<procVars, stratVars, writerVars, orchVars, factVars, batchVars,
                   streamVars>>

\* The rest of connect(): wait returns True once the event is set and False
\* at the timeout; then _connected is read.  An exception of connect() is
\* wrapped in StreamingException by process_streaming_config.
WaitReturns ==
    /\ aq_main = "waiting"
    /\ connection_ready \/ aq_elapsed = ConnectTimeout
    /\ IF connection_ready /\ _connected
       THEN /\ aq_main' = "connected"
            /\ aq_returned' = aq_link
            /\ UNCHANGED aq_error
       ELSE /\ aq_main' = "raised"
            /\ aq_error' = "StreamingException"
            /\ UNCHANGED aq_returned
    /\ UNCHANGED <<reachable, aq_container, _connected, connection_ready, sender,
                   aq_link, aq_elapsed, aq_generated, aq_sent>>
    /\ UNCHANGED <<procVars, stratVars, writerVars, orchVars, factVars, batchVars,
                   streamVars>>

\* One batch of the loop of process_streaming_config: the batch is
\* generated, then send_dataframe raises ConnectionError unless _connected
\* and sender, and hands the message to sender.send, which the library may
\* refuse when the connection is not open.
SendBatch ==
    /\ aq_main = "connected"
    /\ aq_generated < MaxQueueBatches
    /\ aq_generated' = aq_generated + 1
    /\ \E send_raises \in BOOLEAN :
          IF ~_connected \/ sender = "none"
          THEN /\ aq_main' = "raised"
               /\ aq_error' = "ConnectionError"
               /\ UNCHANGED aq_sent
          ELSE IF send_raises /\ aq_link # "open"
          THEN /\ aq_main' = "raised"
               /\ aq_error' = "Exception"
               /\ UNCHANGED aq_sent
          ELSE /\ aq_sent' = aq_sent + 1
               /\ UNCHANGED <<aq_main, aq_error>>
    /\ UNCHANGED <<reachable, aq_container, _connected, connection_ready, sender,
                   aq_link, aq_elapsed, aq_returned>>
    /\ UNCHANGED <<procVars, stratVars, writerVars, orchVars, factVars, batchVars,
                   streamVars>>

\* After the loop: disconnect().
AmqpDisconnect ==
    /\ aq_main = "connected"
    /\ aq_generated = MaxQueueBatches
    /\ aq_main' = "done"
    /\ _connected' = FALSE
    /\ UNCHANGED <<reachable, aq_container, connection_ready, sender, aq_link,
                   aq_elapsed, aq_returned, aq_generated, aq_sent, aq_error>>
    /\ UNCHANGED <<procVars, stratVars, writerVars, orchVars, factVars, batchVars,
                   streamVars>>

NextAmqp ==
    \/ AmqpConnect
    \/ on_start
    \/ ConnectionOpens
    \/ ConnectionFails
    \/ WaitTick
    \/ WaitReturns
    \/ SendBatch
    \/ AmqpDisconnect

SpecAmqp == InitAmqp /\ [][NextAmqp]_vars

(***************************************************************************)
(* Properties of the processors, checked under SpecProc.                   *)
(***************************************************************************)
ColumnsInOrder(cols) ==
    cols = DropColumns(ColumnNames, SeqToSet(ColumnNames) \ SeqToSet(cols))

IntermediateNames ==
    UNION {SeqToSet(cfg.configs[k].names) :
              k \in {j \in DOMAIN cfg.configs : cfg.configs[j].intermediate}}

\* Some enabled column carries a mask DataFrame.eval cannot parse, and every
\* enabled column carries a mask of its own.
BadMaskConfigured ==
    /\ \A k \in DOMAIN cfg.configs :
          cfg.configs[k].disabled \/ cfg.configs[k].hasMask
    /\ \E k \in DOMAIN cfg.configs :
          ~cfg.configs[k].disabled /\ cfg.configs[k].mask = MaskBad

HasWarning(errors) == \E i \in DOMAIN errors : errors[i].severity = "WARNING"

\* C1: with shuffle off, the chunks the streaming processor hands to the
\* writer, concatenated in order, are the table the normal processor hands
\* to the writer for the same configuration, whatever the chunk size; a
\* Series column continues across the chunks.
C1_StreamingEqualsNormal ==
    (BothDone /\ ~cfg.shuffle /\ nresult = "success")
        => /\ sresult = "success"
           /\ ConcatRows(swritten) = Rows(nwritten[1])

\* C4: every table handed to the writer has no column of a config marked
\* intermediate, and its columns follow the order of column_name, with
\* shuffle on or off.
C4_WrittenTablesFiltered ==
    \A t \in SeqToSet(nwritten) \cup SeqToSet(swritten) :
        /\ SeqToSet(t.cols) \cap IntermediateNames = {}
        /\ ColumnsInOrder(t.cols)

\* C10: a mask that cannot be parsed or evaluated makes the strategy apply
\* to all rows and records a warning; the error is not propagated and the
\* run ends with status success.
C10_BadMaskFallsBack ==
    /\ (npc = "done" /\ BadMaskConfigured)
          => nresult = "success" /\ HasWarning(nerrors)
    /\ (spc = "done" /\ BadMaskConfigured)
          => sresult = "success" /\ HasWarning(serrors)

(***************************************************************************)
(* Properties of the strategies, checked under SpecStrat.                  *)
(***************************************************************************)
\* reset_state(), then one generate_chunk(n).
SingleShot(p, g, n) ==
    LET r == Strategy_initialize_state(p, g)
    IN  Strategy_generate_chunk(p, r.priv, r.g, n).values

\* C2: after reset_state(), the chunks generate_chunk(n_1), ...,
\* generate_chunk(n_k) of an instance used on its own, concatenated, are the
\* values reset_state() and one generate_chunk(n_1 + ... + n_k) return, for
\* every strategy and every partition.
C2_ChunkEquivalence ==
    (hasReset /\ ~interfered)
        => outSince = SingleShot(stA, grng, SumSeq(sinceOps))

\* C3: each instance owns its random source: the values A returns are the
\* same whether A is used alone or its calls are interleaved with the
\* construction, reset_state and generate_chunk of another instance B.
C3_InstanceIsolation ==
    outAll = Alone(stA, [py |-> 0, np |-> 0], opsA)

(***************************************************************************)
(* Properties of the writers, checked under SpecWriter.                    *)
(***************************************************************************)
\* A result that reports no failure: status success, or skipped for a table
\* that was not written because it is empty.
NotAFailure(status) == status \in {"success", "skipped"}

\* C5: once finalize() has been called, every write of a non-empty chunk
\* fails: the result is not a success, nothing reaches the sink and no
\* counter moves, for FileWriter, StreamWriter and BatchWriter.
C5_WriteAfterFinalizeFails ==
    (wlast.op = "write" /\ wlast.finalized /\ wlast.rows > 0)
        => /\ wlast.status # "success"
           /\ WriterState = wlast.before

\* C6: write never raises, and when the sink fails on the call (the file
\* writer function raises, the queue send raises, the wrapped writer
\* returns an error) the result of write is not a success.
C6_SinkFailureReported ==
    wlast.op = "write"
        => /\ ~wlast.raised
           /\ (wlast.rows > 0 /\ wlast.outcome # "ok") => wlast.status # "success"

\* C7: write of an empty chunk returns a result that is no failure and
\* changes nothing: rows counter, chunk or batch counter (the next
\* batch_index) and sink are as before the call.
C7_EmptyWriteIsNoOp ==
    (wlast.op = "write" /\ wlast.rows = 0)
        => /\ NotAFailure(wlast.status)
           /\ WriterState = wlast.before

(***************************************************************************)
(* Properties of the orchestrator, checked under SpecOrch.                 *)
(***************************************************************************)
\* C8: run() lets no exception out: every call returns a value, the summary
\* of the run or the failure marker.
C8_RunNeverRaises ==
    opc = "returned" => oret \in {"value", "df", "None"}

\* C9: with stream and batch both set, run() fails with
\* InvalidRunningMode before a side configuration is loaded or a processor
\* started; the error is recorded with severity CRITICAL, so the run halts
\* and returns the failure marker.
C9_BothModesIsCritical ==
    (opc = "returned" /\ orch.stream /\ orch.batch)
        => /\ oloaded = {} /\ ostarted = {}
           /\ \E i \in DOMAIN oerrors :
                 /\ oerrors[i].type = "InvalidRunningModeException"
                 /\ oerrors[i].severity = "CRITICAL"
           /\ oret = "None"

\* The (config, column) pairs a run applies with the mask that matches no
\* row.
ZeroMatchApplications ==
    {<<k, i>> \in (DOMAIN cfg.configs) \X (1..Len(ColumnNames)) :
        /\ i \in DOMAIN cfg.configs[k].names
        /\ ~cfg.configs[k].disabled
        /\ cfg.configs[k].mask = MaskZero}

\* Every enabled column carries a mask DataFrame.eval evaluates, and the only
\* mask that matches no row is the one of ZeroMatchApplications.
MasksEvaluate ==
    \A k \in DOMAIN cfg.configs :
        cfg.configs[k].disabled
        \/ cfg.configs[k].mask \in {MaskAll, MaskEven, MaskZero}

WarningCount(errors) ==
    Cardinality({i \in DOMAIN errors : errors[i].severity = "WARNING"})

\* C11: a strategy applied with a mask that evaluates and matches no row
\* leaves every cell of its target column at the prior value and records
\* exactly one warning.
C11_ZeroMatchLeavesColumnAndWarns ==
    (npc = "done" /\ MasksEvaluate /\ ZeroMatchApplications # {})
        => /\ nresult = "success"
           /\ \A ki \in ZeroMatchApplications :
                 LET col == cfg.configs[ki[1]].names[ki[2]]
                     t   == nwritten[1]
                 IN  col \in SeqToSet(t.cols)
                        => \A r \in 1..t.n : t.cell[col][r] = NaN
           /\ WarningCount(nerrors) = Cardinality(ZeroMatchApplications)

\* The columns some Concat config refers to although their own config comes
\* later in configs.
ForwardReferenced ==
    UNION {ReferencedColumns(cfg.configs[k]) \cap ConfiguredAfter(cfg.configs, k) :
           k \in DOMAIN cfg.configs}

\* C12: a configuration in which a Concat refers to a column configured
\* later is rejected before a value is generated: the run ends with status
\* error, nothing is handed to the writer, and the error text names the
\* referenced column.
C12_ForwardReferenceRejected ==
    /\ (npc = "done" /\ ForwardReferenced # {})
          => /\ nresult = "error" /\ nwritten = <<>>
             /\ nerror.mentions \cap ForwardReferenced # {}
    /\ (spc = "done" /\ ForwardReferenced # {})
          => /\ sresult = "error" /\ swritten = <<>>
             /\ serror.mentions \cap ForwardReferenced # {}

(***************************************************************************)
(* Properties of the strategy factory and of the instances it returns,     *)
(* checked under SpecFact.                                                 *)
(***************************************************************************)
\* create_strategy has returned or raised.
Answered == fpc \in {"created", "failed"}

\* C13: create_strategy of a Distributed* strategy (Choice, NumberRange,
\* DateRange, TimeRange) whose weights do not sum to 100 fails: no instance
\* is returned and the message of the error contains the observed sum.
C13_WeightSumRejectedWithSum ==
    (Answered /\ freq.name \in DistributedNames
              /\ SumSeq(freq.params.weights) # 100)
        => /\ fpc = "failed" /\ finst = ""
           /\ ToString(SumSeq(freq.params.weights)) \in fexc.mentions

\* C14: create_strategy of a name the registry does not hold raises
\* UnsupportedStrategyException to its caller, whose handler for that class
\* records it; no instance is returned.
C14_UnknownNameIsUnsupported ==
    (Answered /\ freq.name \notin DOMAIN STRATEGY_MAP)
        => /\ fpc = "failed" /\ finst = ""
           /\ fexc.type = "UnsupportedStrategyException"
           /\ fhandled.handler = "except UnsupportedStrategyException"
           /\ fhandled.recorded = "UnsupportedStrategyException"

\* C15: each of the thirteen documented strategy names is in the registry,
\* create_strategy with valid params returns an instance, and the instance
\* has generate_chunk, reset_state, get_current_state and its validation.
C15_AllStrategiesCreatable ==
    (Answered /\ freq.name \in DocumentedStrategyNames /\ freq.valid)
        => /\ freq.name \in DOMAIN STRATEGY_MAP
           /\ fpc = "created"
           /\ AbstractMethods \subseteq ClassMethods(finst)

\* C16: generate_chunk(n) returns exactly n values, for n >= 0, for a Series
\* of any integer start and step validation accepts (step 0 and negative
\* steps too) and for a DistributedChoice of any weights that sum to 100.
C16_ChunkHasExactlyNValues ==
    flast.op = "generate_chunk"
        => flast.exc = "" /\ Len(flast.values) = flast.count

\* The last call was generate_chunk on a PatternStrategy built with unique.
UniquePatternChunk ==
    flast.op = "generate_chunk" /\ finst = "PatternStrategy" /\ freq.unique

\* C17: generate_chunk(n) of a unique PatternStrategy ends after at most 3n
\* draws of the pattern and returns exactly n values; the values that are
\* not padding are pairwise distinct and differ from every value returned
\* since the last reset_state.
C17_UniquePatternChunk ==
    UniquePatternChunk
        => /\ flast.draws <= 3 * flast.count
           /\ Len(flast.values) = flast.count
           /\ flast.fresh <= flast.count
           /\ \A i, j \in 1..flast.fresh :
                 i # j => flast.values[i] # flast.values[j]
           /\ \A i \in 1..flast.fresh : flast.values[i] \notin flast.since

\* A unique chunk that found a new value, had to pad, and came after an
\* earlier chunk.
C17_PaddedChunkAfterEarlierChunk ==
    /\ UniquePatternChunk
    /\ flast.fresh > 0 /\ flast.fresh < flast.count
    /\ flast.since # {}

\* The times TimeRange may return for start_time and end_time.
InTimeRange(t, start_time, end_time) ==
    IF end_time < start_time
    THEN (start_time <= t /\ t < DaySeconds) \/ (0 <= t /\ t <= end_time)
    ELSE start_time <= t /\ t <= end_time

\* C18: the factory accepts a TimeRange whose end_time is before its
\* start_time (the range wraps over midnight), and every time returned is
\* in [start_time, 24:00:00) or [00:00:00, end_time]; with start_time
\* before end_time every time is in [start_time, end_time].
C18_TimeRangeWrapsOvernight ==
    (Answered /\ freq.name = "TIME_RANGE_STRATEGY"
              /\ freq.params.start_time # freq.params.end_time)
        => /\ fpc = "created"
           /\ flast.op = "generate_chunk"
                 => \A i \in DOMAIN flast.values :
                       InTimeRange(flast.values[i], freq.params.start_time,
                                   freq.params.end_time)


\* C19: in a streaming run the calls alternate generate chunk k, write chunk
\* k; the k-th table handed to the writer is the k-th table generated; and
\* the batch_index stamped on the k-th chunk is k - 1, the same index the
\* write result returns.
C19_ChunksWrittenInGenerationOrder ==
    /\ Len(slog) = 2 * batch_count
    /\ Len(swritten) = batch_count
    /\ sbatch_writer.batches_written = batch_count
    /\ \A k \in 1..batch_count :
          LET generated == slog[2 * k - 1]
              written   == slog[2 * k]
          IN  /\ generated.event = "generate" /\ generated.chunk = k
              /\ written.event = "write" /\ written.chunk = k
              /\ written.df = generated.df
              /\ swritten[k] = generated.df
              /\ written.batch_index = k - 1
              /\ written.returned = written.batch_index

\* A finished streaming run that wrote at least three non-empty chunks.
C19_ThreeChunksWritten ==
    /\ spc = "done"
    /\ sresult = "success"
    /\ batch_count >= 3
    /\ \A k \in 1..batch_count : swritten[k].n >= 1


\* C20: a streaming run terminates with the target reached.  Every iteration
\* of the loop hands the writer a chunk of between 1 and min(chunk_size,
\* batch_size) rows, so after batch_count iterations at least batch_count
\* and at most cfg.rows rows have been generated; a run that returns success
\* has generated and written exactly cfg.rows rows and has called finalize
\* exactly once.
RECURSIVE RowsWritten(_)
RowsWritten(tables) ==
    IF tables = <<>> THEN 0 ELSE Head(tables).n + RowsWritten(Tail(tables))

C20_StreamingLoopTerminates ==
    /\ \A k \in 1..Len(swritten) :
          /\ swritten[k].n >= 1
          /\ swritten[k].n <= StreamingChunkSize
    /\ batch_count <= total_generated
    /\ total_generated <= cfg.rows
    /\ (spc = "done" /\ sresult = "success")
          => /\ total_generated = cfg.rows
             /\ RowsWritten(swritten) = cfg.rows
             /\ sfinalized = 1
    /\ sfinalized <= 1


\* The masks that read the row labels only.
IndexMasks == {MaskAll, MaskEven, MaskZero}

\* The rows of a table of n rows an index mask matches, in table order.
MatchingRows(mask, n) ==
    {i \in 1..n : DfEval(create_base_dataframe(n), mask)[i]}

\* The position of row i among the matching rows.
RankAmong(i, rows) == Cardinality({j \in rows : j <= i})

\* Every enabled config is a Series under an index mask.
SeriesUnderIndexMasks ==
    \A k \in DOMAIN cfg.configs :
        cfg.configs[k].disabled
        \/ (/\ cfg.configs[k].strategy.name = "SERIES_STRATEGY"
            /\ cfg.configs[k].mask \in IndexMasks)

\* The columns an enabled config targets.
TargetedColumns ==
    UNION {SeqToSet(cfg.configs[k].names) :
              k \in {j \in DOMAIN cfg.configs : ~cfg.configs[j].disabled}}

\* C30: a Series applied under a mask that matches k rows generates k
\* values, and the i-th matching row in table order receives the i-th
\* value, wherever the matching rows lie; rows that do not match and
\* columns no strategy targets keep their prior value.
C30_MaskedRowsReceiveValuesInOrder ==
    (npc = "done" /\ ~cfg.shuffle /\ SeriesUnderIndexMasks)
        => /\ nresult = "success"
           /\ LET t == nwritten[1]
              IN  /\ \A k \in DOMAIN cfg.configs :
                        \A col \in SeqToSet(cfg.configs[k].names) \cap SeqToSet(t.cols) :
                           LET c     == cfg.configs[k]
                               match == MatchingRows(c.mask, t.n)
                           IN  ~c.disabled =>
                                 \A r \in 1..t.n :
                                    t.cell[col][r] =
                                       IF r \in match
                                       THEN c.strategy.params.start
                                            + (RankAmong(r, match) - 1)
                                              * c.strategy.params.step
                                       ELSE NaN
                  /\ \A col \in SeqToSet(t.cols) \ TargetedColumns :
                        \A r \in 1..t.n : t.cell[col][r] = NaN


\* The printed form of a cell, by which a text cell and a null cell compare.
CellText(v) == ToString(v)

\* The run applies a Series to every row of a column and then a Concat that
\* reads it.
ConcatAfterSeries ==
    /\ Len(cfg.configs) = 2
    /\ cfg.configs[1].strategy.name = "SERIES_STRATEGY"
    /\ cfg.configs[2].strategy.name = "CONCAT_STRATEGY"

\* C25: after Concat is applied under a mask, every matching row i holds
\* str(lhs_col[i]) + str(rhs_col[i]) of that same row (prefix, separator and
\* suffix empty), wherever the matching rows lie; the other rows keep
\* their prior value and lhs_col and rhs_col are unchanged.
C25_ConcatIsRowWise ==
    (npc = "done" /\ ~cfg.shuffle /\ ConcatAfterSeries)
        => /\ nresult = "success"
           /\ LET t      == nwritten[1]
                  series == cfg.configs[1]
                  concat == cfg.configs[2]
                  target == concat.names[1]
                  p      == concat.strategy.params
                  match  == MatchingRows(concat.mask, t.n)
                  before == [c \in SeqToSet(ColumnNames) |->
                               [r \in 1..t.n |->
                                  IF c \in SeqToSet(series.names)
                                  THEN series.strategy.params.start
                                       + (r - 1) * series.strategy.params.step
                                  ELSE NaN]]
              IN  /\ \A r \in 1..t.n :
                        CellText(t.cell[target][r]) =
                           IF r \in match
                           THEN CellText(astype_str(before[p.lhs_col][r])
                                         \o astype_str(before[p.rhs_col][r]))
                           ELSE CellText(before[target][r])
                  /\ \A c \in {p.lhs_col, p.rhs_col} \ {target} :
                        \A r \in 1..t.n : t.cell[c][r] = before[c][r]


HasError(errors) == \E i \in DOMAIN errors : errors[i].severity = "ERROR"

\* Some writer.write call of the streaming run returned an error result.
StreamingWriteFailed ==
    \E i \in DOMAIN slog : slog[i].event = "write" /\ slog[i].status = "error"

\* C22: a run in which a writer.write call returned an error result, or in
\* which an error of severity ERROR was recorded, does not return status
\* success.
C22_ErrorFailsTheRun ==
    /\ (npc = "done" /\ (nwrite_status = "error" \/ HasError(nerrors)))
          => nresult # "success"
    /\ (spc = "done" /\ (StreamingWriteFailed \/ HasError(serrors)))
          => sresult # "success"

\* C27: a run that has ended has called finalize of its writer exactly once,
\* also when it ended on an exception; no run calls it twice.
C27_FinalizeCalledOnce ==
    /\ npc = "done" => nfinalized = 1
    /\ spc = "done" => sfinalized = 1
    /\ nfinalized <= 1 /\ sfinalized <= 1


\* The counters of the writer a BatchWriter wraps.
WrappedRowsWritten ==
    IF UsesFileWriter THEN file_writer.total_rows_written
    ELSE stream_writer.total_rows_written

WrappedChunksWritten ==
    IF UsesFileWriter THEN file_writer.files_written
    ELSE stream_writer.total_batches_sent

\* C29: at every point of a run, whatever the write calls were (non-empty,
\* empty, failing in the wrapped writer), the row total of a BatchWriter is
\* the row total of the writer it wraps and its batch count is the number of
\* chunks that writer wrote.
C29_BatchWriterCountsMatchWrapped ==
    IsBatchWriter
        => /\ batch_writer.total_rows_written = WrappedRowsWritten
           /\ batch_writer.batches_written = WrappedChunksWritten


\* "{i:04d}"
Format04d(i) ==
    IF i < 10 THEN "000" \o ToString(i)
    ELSE IF i < 100 THEN "00" \o ToString(i)
    ELSE IF i < 1000 THEN "0" \o ToString(i)
    ELSE ToString(i)

\* {output_dir}/{file_prefix}_{batch_index:04d}.{format}
BatchFileName(i) == "output/batch_" \o Format04d(i) \o ".json"

\* The rows the files hold: for each file, the rows of the last output
\* written to it.
RECURSIVE RowsOnDisk(_, _)
RowsOnDisk(outputs, k) ==
    IF k > Len(outputs) THEN 0
    ELSE (IF \E l \in (k + 1)..Len(outputs) : outputs[l].dest = outputs[k].dest
          THEN 0 ELSE outputs[k].data)
         + RowsOnDisk(outputs, k + 1)

\* C23: through a BatchWriter that writes to files, the chunk with
\* batch_index i goes to its own file {output_dir}/{file_prefix}_{i:04d}
\* .{format}; two chunks never share a file, so no write replaces the output
\* of an earlier chunk, and the files together hold every row that was
\* written.
C23_OneFilePerBatch ==
    wkind = "BatchWriter(FileWriter)"
        => /\ \A j \in DOMAIN wout : wout[j].dest = BatchFileName(wout[j].chunk)
           /\ \A j, k \in DOMAIN wout : j # k => wout[j].dest # wout[k].dest
           /\ RowsOnDisk(wout, 1) = SumSeq(sink)


\* C24: every queue message and every batch file emitted for a chunk by the
\* stream and batch writers is an envelope of batch_info, data and metadata
\* in which metadata.rows is the number of entries of data and batch_info
\* carries batch_index, config_name, a timestamp and a batch_size equal to
\* that number.
C24_OutputsAreEnvelopes ==
    wkind \in {"StreamWriter", "BatchWriter(StreamWriter)", "BatchWriter(FileWriter)"}
        => \A j \in DOMAIN wout :
              /\ wout[j].top = {"batch_info", "data", "metadata"}
              /\ wout[j].rows = wout[j].data
              /\ {"batch_index", "batch_size", "config_name", "timestamp"}
                    \subseteq wout[j].info_keys
              /\ wout[j].batch_size = wout[j].data


(***************************************************************************)
(* Properties of StreamingBatchProcessor, checked under SpecBatch.         *)
(***************************************************************************)
RECURSIVE BatchRowsWritten(_)
BatchRowsWritten(written) ==
    IF written = <<>> THEN 0
    ELSE Head(written).rows + BatchRowsWritten(Tail(written))

\* C28: every batch handed to write_batch has at least 1 and at most
\* batch_size rows, whatever the chunk size; the batch_index values are 0,
\* 1, 2, ... in write order; and when process returns the written batches
\* hold num_of_rows rows in all and the buffer is empty.
C28_BatchesAreBounded ==
    /\ \A j \in DOMAIN sbp_written :
          /\ sbp_written[j].rows >= 1
          /\ sbp_written[j].rows <= sbp.batch_size
          /\ sbp_written[j].batch_index = j - 1
    /\ sbp_pc = "done"
          => /\ BatchRowsWritten(sbp_written) = sbp.target_rows
             /\ sbp.buffer = 0


(***************************************************************************)
(* Properties of process_streaming_config, checked under SpecStream.       *)
(***************************************************************************)
\* sum(list)
SumAll(list) == SumFirst(list, Len(list))

\* The rows of the batches sent before batch k (k counted from 1 here).
RECURSIVE RowsSentBefore(_)
RowsSentBefore(k) ==
    IF k <= 1 THEN 0 ELSE psc_sent[k - 1].rows + RowsSentBefore(k - 1)

\* C26: once process_streaming_config has computed its batches, every batch
\* size is positive and the sizes sum to num_of_rows; and the Series start
\* prepared for each batch sent is the original start plus step times the
\* rows of the batches processed before it, so that the batches continue one
\* arithmetic progression.
C26_BatchesContinueTheSeries ==
    /\ psc_pc \in {"loop", "done"} =>
          /\ \A i \in 1..Len(batches) : batches[i] > 0
          /\ SumAll(batches) = config_file.num_of_rows
    /\ \A k \in 1..Len(psc_sent) :
          /\ psc_sent[k].start =
                config_file.params.start
                    + config_file.params.step * RowsSentBefore(k)
          /\ psc_sent[k].first = psc_sent[k].start


(***************************************************************************)
(* Properties of AMQPProducer, checked under SpecAmqp.                     *)
(***************************************************************************)
\* C21: connect() returns normally only when the broker connection is open;
\* with an unreachable broker the caller never gets past connect(), so no
\* batch is generated or sent, and the run ends, within the connection
\* timeout, with the StreamingException that wraps the connection error.
C21_UnreachableBrokerFailsBeforeFirstBatch ==
    /\ aq_main \in {"connected", "done"} => aq_returned = "open"
    /\ ~reachable =>
          /\ aq_main \notin {"connected", "done"}
          /\ aq_generated = 0
          /\ aq_sent = 0
          /\ aq_main = "raised" =>
                /\ aq_error = "StreamingException"
                /\ aq_elapsed <= ConnectTimeout

====
